---- MODULE Spec2Model ----
(***************************************************************************)
(* Configuration subsystem of the trading bot (src/common/config.rs):      *)
(* primitive parsers, category loaders, the validator, and the one-time    *)
(* construction of the process-wide aggregate GLOBAL_CONFIG.               *)
(*                                                                         *)
(* Encodings.                                                              *)
(*   String   a sequence of one-character strings, "12:30" is              *)
(*            <<"1","2",":","3","0">>.                                     *)
(*   Option / Result   the empty sequence for None / Err, <<v>> for        *)
(*            Some(v) / Ok(v).                                             *)
(*   u64      a decimal numeral: a sequence of digits 0..9 without leading *)
(*            zeros (exact, 10_000_000_000 does not fit a TLC integer).    *)
(*   f64      a fixed-point integer counting thousandths (50.0 is 50000),  *)
(*            with the three special values NaN, INF and -INF.             *)
(***************************************************************************)
EXTENDS Integers, Sequences, FiniteSets, TLC

\* ------------------------------------------------------------------ strings

Digits == {"0", "1", "2", "3", "4", "5", "6", "7", "8", "9"}

Letters ==
    {"a", "b", "c", "d", "e", "f", "g", "h", "i", "j", "k", "l", "m",
     "n", "o", "p", "q", "r", "s", "t", "u", "v", "w", "x", "y", "z",
     "A", "B", "C", "D", "E", "F", "G", "H", "I", "J", "K", "L", "M",
     "N", "O", "P", "Q", "R", "S", "T", "U", "V", "W", "X", "Y", "Z"}

DigitVal(c) ==
    CASE c = "0" -> 0 [] c = "1" -> 1 [] c = "2" -> 2 [] c = "3" -> 3
      [] c = "4" -> 4 [] c = "5" -> 5 [] c = "6" -> 6 [] c = "7" -> 7
      [] c = "8" -> 8 [] c = "9" -> 9

\* an alphabetic character outside ASCII; its UTF-8 encoding has two bytes
TwoByte == {"é"}

\* char::is_alphanumeric on the characters of the model's alphabet
is_alphanumeric(c) == c \in Digits \cup Letters \cup TwoByte

\* str::len: the length of the UTF-8 encoding in bytes
len(s) == Len(s) + Cardinality({i \in 1..Len(s) : s[i] \in TwoByte})

\* char::is_whitespace on the characters of the model's alphabet
is_whitespace(c) == c = " "

\* the least and the greatest element of a non-empty set of integers
Least(S) == CHOOSE i \in S : \A j \in S : i <= j
Greatest(S) == CHOOSE i \in S : \A j \in S : i >= j

\* str::trim_start: strips leading whitespace only
trim_start(s) ==
    LET keep == {i \in 1..Len(s) : ~is_whitespace(s[i])}
    IN  IF keep = {} THEN <<>> ELSE SubSeq(s, Least(keep), Len(s))

\* str::trim: strips leading and trailing whitespace
trim(s) ==
    LET keep == {i \in 1..Len(s) : ~is_whitespace(s[i])}
    IN  IF keep = {} THEN <<>> ELSE SubSeq(s, Least(keep), Greatest(keep))

\* str::matches(c).count()
CountChar(s, c) == Cardinality({i \in 1..Len(s) : s[i] = c})

\* str::split(c): the pieces between the occurrences of c, in order;
\* n occurrences give n + 1 pieces (the empty string gives one empty piece)
split(s, c) ==
    LET at == {i \in 1..Len(s) : s[i] = c}
        n == Cardinality(at)
        \* the k-th occurrence of c, with 0 before the first and
        \* Len(s) + 1 after the last
        cut(k) == IF k = 0 THEN 0
                  ELSE IF k > n THEN Len(s) + 1
                  ELSE CHOOSE i \in at : Cardinality({j \in at : j < i}) = k - 1
    IN  [k \in 1..(n + 1) |-> SubSeq(s, cut(k - 1) + 1, cut(k) - 1)]

\* ------------------------------------------------------------------ Option

None == <<>>
Some(v) == <<v>>
is_some(o) == Len(o) = 1
is_none(o) == Len(o) = 0
\* Option::unwrap_or / Result::unwrap_or
unwrap_or(o, d) == IF is_some(o) THEN o[1] ELSE d

\* ------------------------------------------------------------------ unsigned numerals

\* the canonical numeral: leading zeros dropped, a last digit kept
StripZeros(n) ==
    LET lead == {i \in 1..Len(n) : i = Len(n) \/ n[i] # 0}
    IN  IF Len(n) = 0 THEN n ELSE SubSeq(n, Least(lead), Len(n))

\* a < b on canonical numerals
NumLt(a, b) ==
    \/ Len(a) < Len(b)
    \/ /\ Len(a) = Len(b)
       /\ \E i \in 1..Len(a) :
            /\ a[i] < b[i]
            /\ \A j \in 1..(i - 1) : a[j] = b[j]

NumGe(a, b) == ~NumLt(a, b)

\* the value of a numeral that fits a TLC integer
NumToInt(n) ==
    LET val[k \in 0..Len(n)] == IF k = 0 THEN 0 ELSE 10 * val[k - 1] + n[k]
    IN  val[Len(n)]

\* u64::MAX = 18446744073709551615
U64_MAX == <<1, 8, 4, 4, 6, 7, 4, 4, 0, 7, 3, 7, 0, 9, 5, 5, 1, 6, 1, 5>>
\* u8::MAX
U8_MAX == <<2, 5, 5>>

\* <unsigned>::from_str: an optional "+", then one or more decimal digits;
\* a "-", an empty digit string, any other character or a value above the
\* type's maximum is an error
parse_unsigned(s, max) ==
    LET body == IF Len(s) > 0 /\ Head(s) = "+" THEN Tail(s) ELSE s
    IN  IF Len(body) = 0 \/ \E i \in 1..Len(body) : body[i] \notin Digits
        THEN None
        ELSE LET n == StripZeros([i \in 1..Len(body) |-> DigitVal(body[i])])
             IN  IF NumLt(max, n) THEN None ELSE Some(n)

\* ------------------------------------------------------------------ f64

\* thousandths per unit of the fixed-point encoding of f64
FScale == 1000
\* the special values of f64; every finite value lies strictly between
NaN == -2000000001
INF == 2000000000
NEG_INF == -2000000000

\* IEEE comparisons: every comparison with NaN is false
FLt(a, b) == a # NaN /\ b # NaN /\ a < b
FGt(a, b) == a # NaN /\ b # NaN /\ a > b

\* a * k for a finite positive k
FMul(a, k) ==
    IF a \in {NaN, INF, NEG_INF} THEN a ELSE a * k

\* the digits of a fraction as thousandths ("5" is 500, "05" is 50)
FracVal(f) ==
    LET d(i) == IF i <= Len(f) THEN DigitVal(f[i]) ELSE 0
    IN  100 * d(1) + 10 * d(2) + d(3)

\* f64::from_str on the model's alphabet: an optional sign, then "nan",
\* "inf" or "infinity" in any case, or decimal digits with at most one "."
\* and at least one digit. (Exponents are outside the alphabet; fractions
\* are kept to three digits, integer parts to six.)
parse_f64_str(s) ==
    LET signed == Len(s) > 0 /\ Head(s) \in {"+", "-"}
        neg == signed /\ Head(s) = "-"
        body == IF signed THEN Tail(s) ELSE s
        lower(c) == CASE c = "N" -> "n" [] c = "A" -> "a" [] c = "I" -> "i"
                      [] c = "F" -> "f" [] c = "T" -> "t" [] c = "Y" -> "y"
                      [] OTHER -> c
        low == [i \in 1..Len(body) |-> lower(body[i])]
        parts == split(body, ".")
        ip == parts[1]
        fp == IF Len(parts) = 2 THEN parts[2] ELSE <<>>
        alldigits(t) == \A i \in 1..Len(t) : t[i] \in Digits
    IN  IF low = <<"n", "a", "n">> THEN Some(NaN)
        ELSE IF low = <<"i", "n", "f">>
                \/ low = <<"i", "n", "f", "i", "n", "i", "t", "y">>
        THEN Some(IF neg THEN NEG_INF ELSE INF)
        ELSE IF /\ Len(parts) <= 2
                /\ alldigits(ip) /\ alldigits(fp)
                /\ Len(ip) + Len(fp) > 0
        THEN LET mag == FScale * NumToInt([i \in 1..Len(ip) |-> DigitVal(ip[i])])
                        + FracVal(fp)
             IN  Some(IF neg THEN 0 - mag ELSE mag)
        ELSE None

\* bool::from_str: exactly "true" or "false"
parse_bool_str(s) ==
    IF s = <<"t", "r", "u", "e">> THEN Some(TRUE)
    ELSE IF s = <<"f", "a", "l", "s", "e">> THEN Some(FALSE)
    ELSE None

\* ------------------------------------------------------------------ environment

\* A string literal as a sequence of characters
S_empty == <<>>
S_mainnet_http ==
    <<"h", "t", "t", "p", "s", ":", "/", "/", "a", "p", "i", ".", "m", "a",
      "i", "n", "n", "e", "t", "-", "b", "e", "t", "a", ".", "s", "o", "l",
      "a", "n", "a", ".", "c", "o", "m">>
S_mainnet_wss ==
    <<"w", "s", "s", ":", "/", "/", "a", "p", "i", ".", "m", "a",
      "i", "n", "n", "e", "t", "-", "b", "e", "t", "a", ".", "s", "o", "l",
      "a", "n", "a", ".", "c", "o", "m">>
S_mainnet == <<"m", "a", "i", "n", "n", "e", "t">>
S_us_east == <<"u", "s", "-", "e", "a", "s", "t">>

\* the numeral of a natural number that fits a TLC integer
RECURSIVE IntToNum(_)
IntToNum(n) ==
    IF n < 10 THEN <<n>> ELSE Append(IntToNum(n \div 10), n % 10)

\* env::var(key): Some(value) when the variable is set, None otherwise
var(e, key) == e[key]

\* env::var(key).unwrap_or_default()
var_or_default(e, key) == unwrap_or(var(e, key), S_empty)

\* parse_f64_env
parse_f64_env(e, key, default) ==
    unwrap_or(parse_f64_str(var_or_default(e, key)), default)

\* a bounded parser whose interval is open
parse_f64_env_with_validation_strict(e, key, default, min, max) ==
    LET value == parse_f64_env(e, key, default)
    IN  IF ~(FGt(value, min) /\ FLt(value, max)) THEN None ELSE Some(value)

\* parse_f64_env_with_validation: Err(InvalidPercentage) is None
parse_f64_env_with_validation(e, key, default, min, max) ==
    LET value == parse_f64_env(e, key, default)
    IN  IF FLt(value, min) \/ FGt(value, max) THEN None ELSE Some(value)

\* an unsigned parser that gives 0 for what does not convert
parse_u64_env_zero(e, key, default) ==
    unwrap_or(parse_unsigned(var_or_default(e, key), U64_MAX), <<0>>)

\* parse_u64_env
parse_u64_env(e, key, default) ==
    unwrap_or(parse_unsigned(var_or_default(e, key), U64_MAX), default)

\* a bool parser that gives false for what does not convert
parse_bool_env_false(e, key, default) ==
    unwrap_or(parse_bool_str(var_or_default(e, key)), FALSE)

\* parse_bool_env
parse_bool_env(e, key, default) ==
    unwrap_or(parse_bool_str(var_or_default(e, key)), default)

\* Config::is_valid_time_format
is_valid_time_format(time_str) ==
    IF CountChar(time_str, ":") # 1 THEN FALSE
    ELSE LET parts == split(time_str, ":")
         IN  IF Len(parts) # 2 THEN FALSE
             ELSE LET hours == parse_unsigned(parts[1], U8_MAX)
                      minutes == parse_unsigned(parts[2], U8_MAX)
                  IN  IF is_some(hours) /\ is_some(minutes)
                      THEN NumToInt(hours[1]) <= 23 /\ NumToInt(minutes[1]) <= 59
                      ELSE FALSE

\* parse_time_format_env: Err(InvalidTimeFormat) is None
parse_time_format_env(e, key, default) ==
    LET time_str == unwrap_or(var(e, key), default)
    IN  IF ~is_valid_time_format(time_str) THEN None ELSE Some(time_str)

\* is_valid_wallet_address
is_valid_wallet_address(address) ==
    /\ len(address) >= 32
    /\ len(address) <= 44
    /\ \A i \in 1..Len(address) : is_alphanumeric(address[i])

\* ------------------------------------------------------------------ i32, u32

U32_MAX == <<4, 2, 9, 4, 9, 6, 7, 2, 9, 5>>
I32_MAX == <<2, 1, 4, 7, 4, 8, 3, 6, 4, 7>>
I32_MIN_MAG == <<2, 1, 4, 7, 4, 8, 3, 6, 4, 8>>

\* minus the value of a numeral (down to i32::MIN without overflow)
NegNumToInt(n) ==
    LET val[k \in 0..Len(n)] == IF k = 0 THEN 0 ELSE 10 * val[k - 1] - n[k]
    IN  val[Len(n)]

\* i32::from_str: an optional "+" or "-", then one or more decimal digits,
\* within i32::MIN..i32::MAX
parse_i32_str(s) ==
    LET signed == Len(s) > 0 /\ Head(s) \in {"+", "-"}
        neg == signed /\ Head(s) = "-"
        body == IF signed THEN Tail(s) ELSE s
    IN  IF Len(body) = 0 \/ \E i \in 1..Len(body) : body[i] \notin Digits
        THEN None
        ELSE LET n == StripZeros([i \in 1..Len(body) |-> DigitVal(body[i])])
             IN  IF neg
                 THEN IF NumLt(I32_MIN_MAG, n) THEN None ELSE Some(NegNumToInt(n))
                 ELSE IF NumLt(I32_MAX, n) THEN None ELSE Some(NumToInt(n))

\* parse_i32_env
parse_i32_env(e, key, default) ==
    unwrap_or(parse_i32_str(var_or_default(e, key)), default)

\* env::var(key).unwrap_or_default().parse::<u32>().unwrap_or(default)
parse_u32_env(e, key, default) ==
    unwrap_or(parse_unsigned(var_or_default(e, key), U32_MAX), default)

\* ------------------------------------------------------------------ defaults

S_0000 == <<"0", "0", ":", "0", "0">>
S_2359 == <<"2", "3", ":", "5", "9">>

BasicTradingConfig_default ==
    [threshold_sell  |-> <<1, 0, 0, 0, 0, 0, 0, 0, 0, 0, 0>>,
     threshold_buy   |-> <<3, 0, 0, 0, 0, 0, 0, 0, 0, 0>>,
     max_wait_time   |-> IntToNum(650000),
     private_key     |-> S_empty,
     rpc_http        |-> S_mainnet_http,
     rpc_wss         |-> S_mainnet_wss,
     time_exceed     |-> IntToNum(30),
     token_amount    |-> IntToNum(1000000),
     unit_price      |-> 1,
     unit_limit      |-> IntToNum(1000),
     downing_percent |-> 50 * FScale,
     sell_all_tokens |-> FALSE]

JitoConfig_default ==
    [block_engine_url |-> S_empty,
     priority_fee     |-> IntToNum(1000),
     tip_value        |-> IntToNum(1000),
     use_jito         |-> FALSE]

ZeroSlotConfig_default ==
    [url |-> S_empty, tip_value |-> IntToNum(1000)]

NozomiConfig_default ==
    [url |-> S_empty, tip_value |-> IntToNum(1000)]

BloxRouteConfig_default ==
    [network     |-> S_mainnet,
     region      |-> S_us_east,
     auth_header |-> S_empty,
     tip_value   |-> IntToNum(1000)]

AdvancedFilterSettings_default ==
    [min_market_cap           |-> 8 * FScale,
     max_market_cap           |-> 15 * FScale,
     market_cap_enabled       |-> TRUE,
     min_volume               |-> 5 * FScale,
     max_volume               |-> 12 * FScale,
     volume_enabled           |-> TRUE,
     min_number_of_buy_sell   |-> 50,
     max_number_of_buy_sell   |-> 2000,
     buy_sell_count_enabled   |-> TRUE,
     sol_invested             |-> 1 * FScale,
     sol_invested_enabled     |-> TRUE,
     min_launcher_sol_balance |-> 0,
     max_launcher_sol_balance |-> 1 * FScale,
     launcher_sol_enabled     |-> TRUE,
     dev_buy_enabled          |-> TRUE]

CopyTradingConfig_default ==
    [enabled                |-> FALSE,
     buy_sell_percent       |-> 100 * FScale,
     target_wallets         |-> <<>>,
     multi_target_mode      |-> FALSE,
     mc_threshold_to_buy    |-> 1000000 * FScale,
     mc_threshold_to_follow |-> 500000 * FScale]

PrivateLogicConfig_default ==
    [enabled         |-> FALSE,
     stage_1_percent |-> 10 * FScale, stage_1_delay |-> IntToNum(1000),
     stage_2_percent |-> 20 * FScale, stage_2_delay |-> IntToNum(2000),
     stage_3_percent |-> 30 * FScale, stage_3_delay |-> IntToNum(3000),
     stage_4_percent |-> 40 * FScale, stage_4_delay |-> IntToNum(4000),
     stage_5_percent |-> 50 * FScale, stage_5_delay |-> IntToNum(5000),
     stage_6_percent |-> 60 * FScale, stage_6_delay |-> IntToNum(6000),
     stage_7_percent |-> 70 * FScale, stage_7_delay |-> IntToNum(7000)]

InverseBuyConfig_default ==
    [enabled |-> FALSE, buy_amount |-> 100]

TimerConfig_default ==
    [enabled           |-> FALSE,
     start_time        |-> S_0000,
     stop_time         |-> S_2359,
     auto_sell_on_stop |-> FALSE]

ModeConfig_default ==
    [simulation_mode |-> FALSE, live_mode |-> TRUE, paper_trading |-> FALSE]

\* variant: the confidences written as percentages (70.0 for 0.7)
AdvancedConfig_default_percent ==
    [limit_wait_time                     |-> IntToNum(30000),
     limit_buy_amount_in_limit_wait_time |-> 500,
     review_cycle_duration               |-> IntToNum(120000),
     time_delta_threshold                |-> IntToNum(300),
     price_delta_threshold               |-> 5 * FScale,
     min_buy_confidence                  |-> 70 * FScale,
     min_sell_confidence                 |-> 60 * FScale,
     daily_buy_budget                    |-> 10 * FScale]

AdvancedConfig_default ==
    [limit_wait_time                     |-> IntToNum(30000),
     limit_buy_amount_in_limit_wait_time |-> 500,
     review_cycle_duration               |-> IntToNum(120000),
     time_delta_threshold                |-> IntToNum(300),
     price_delta_threshold               |-> 5 * FScale,
     min_buy_confidence                  |-> 700,
     min_sell_confidence                 |-> 600,
     daily_buy_budget                    |-> 10 * FScale]

\* ------------------------------------------------------------------ category loaders

load_basic_trading_settings(e) ==
    LET d == BasicTradingConfig_default
    IN  [threshold_sell  |-> parse_u64_env(e, "THRESHOLD_SELL", d.threshold_sell),
         threshold_buy   |-> parse_u64_env(e, "THRESHOLD_BUY", d.threshold_buy),
         max_wait_time   |-> parse_u64_env(e, "MAX_WAIT_TIME", d.max_wait_time),
         private_key     |-> var_or_default(e, "PRIVATE_KEY"),
         rpc_http        |-> unwrap_or(var(e, "RPC_HTTP"), d.rpc_http),
         rpc_wss         |-> unwrap_or(var(e, "RPC_WSS"), d.rpc_wss),
         time_exceed     |-> parse_u64_env(e, "TIME_EXCEED", d.time_exceed),
         token_amount    |-> parse_u64_env(e, "TOKEN_AMOUNT", d.token_amount),
         unit_price      |-> parse_f64_env(e, "UNIT_PRICE", d.unit_price),
         unit_limit      |-> parse_u64_env(e, "UNIT_LIMIT", d.unit_limit),
         downing_percent |-> parse_f64_env(e, "DOWNING_PERCENT", d.downing_percent),
         sell_all_tokens |-> parse_bool_env(e, "SELL_ALL_TOKENS", d.sell_all_tokens)]

load_jito_settings(e) ==
    LET d == JitoConfig_default
    IN  [block_engine_url |-> unwrap_or(var(e, "JITO_BLOCK_ENGINE_URL"), d.block_engine_url),
         priority_fee     |-> parse_u64_env(e, "JITO_PRIORITY_FEE", d.priority_fee),
         tip_value        |-> parse_u64_env(e, "JITO_TIP_VALUE", d.tip_value),
         use_jito         |-> parse_bool_env(e, "USE_JITO", d.use_jito)]

load_zero_slot_settings(e) ==
    LET d == ZeroSlotConfig_default
    IN  [url       |-> unwrap_or(var(e, "ZERO_SLOT_URL"), d.url),
         tip_value |-> parse_u64_env(e, "ZERO_SLOT_TIP_VALUE", d.tip_value)]

load_nozomi_settings(e) ==
    LET d == NozomiConfig_default
    IN  [url       |-> unwrap_or(var(e, "NOZOMI_URL"), d.url),
         tip_value |-> parse_u64_env(e, "NOZOMI_TIP_VALUE", d.tip_value)]

load_blox_route_settings(e) ==
    LET d == BloxRouteConfig_default
    IN  [network     |-> unwrap_or(var(e, "NETWORK"), d.network),
         region      |-> unwrap_or(var(e, "REGION"), d.region),
         auth_header |-> var_or_default(e, "AUTH_HEADER"),
         tip_value   |-> parse_u64_env(e, "BLOXROUTE_TIP_VALUE", d.tip_value)]

load_advanced_filter_settings(e) ==
    LET d == AdvancedFilterSettings_default
    IN  [min_market_cap           |-> parse_f64_env(e, "MIN_MARKET_CAP", d.min_market_cap),
         max_market_cap           |-> parse_f64_env(e, "MAX_MARKET_CAP", d.max_market_cap),
         market_cap_enabled       |-> parse_bool_env(e, "MARKET_CAP_ENABLED", d.market_cap_enabled),
         min_volume               |-> parse_f64_env(e, "MIN_VOLUME", d.min_volume),
         max_volume               |-> parse_f64_env(e, "MAX_VOLUME", d.max_volume),
         volume_enabled           |-> parse_bool_env(e, "VOLUME_ENABLED", d.volume_enabled),
         min_number_of_buy_sell   |-> parse_i32_env(e, "MIN_NUMBER_OF_BUY_SELL", d.min_number_of_buy_sell),
         max_number_of_buy_sell   |-> parse_i32_env(e, "MAX_NUMBER_OF_BUY_SELL", d.max_number_of_buy_sell),
         buy_sell_count_enabled   |-> parse_bool_env(e, "BUY_SELL_COUNT_ENABLED", d.buy_sell_count_enabled),
         sol_invested             |-> parse_f64_env(e, "SOL_INVESTED", d.sol_invested),
         sol_invested_enabled     |-> parse_bool_env(e, "SOL_INVESTED_ENABLED", d.sol_invested_enabled),
         min_launcher_sol_balance |-> parse_f64_env(e, "MIN_LAUNCHER_SOL_BALANCE", d.min_launcher_sol_balance),
         max_launcher_sol_balance |-> parse_f64_env(e, "MAX_LAUNCHER_SOL_BALANCE", d.max_launcher_sol_balance),
         launcher_sol_enabled     |-> parse_bool_env(e, "LAUNCHER_SOL_ENABLED", d.launcher_sol_enabled),
         dev_buy_enabled          |-> parse_bool_env(e, "DEV_BUY_ENABLED", d.dev_buy_enabled)]

load_copy_trading_settings(e) ==
    LET d == CopyTradingConfig_default
        target_wallets_str == var_or_default(e, "TARGET_WALLETS")
        pieces == split(target_wallets_str, ",")
        target_wallets ==
            IF Len(target_wallets_str) = 0 THEN <<>>
            ELSE [i \in 1..Len(pieces) |-> trim(pieces[i])]
    IN  [enabled                |-> parse_bool_env(e, "COPY_TRADING_ENABLED", d.enabled),
         buy_sell_percent       |->
             unwrap_or(parse_f64_env_with_validation(e, "BUY_SELL_PERCENT",
                           d.buy_sell_percent, 0, 100 * FScale),
                       d.buy_sell_percent),
         target_wallets         |-> target_wallets,
         multi_target_mode      |-> parse_bool_env(e, "MULTI_TARGET_MODE", d.multi_target_mode),
         mc_threshold_to_buy    |-> parse_f64_env(e, "MC_THRESHOLD_TO_BUY", d.mc_threshold_to_buy),
         mc_threshold_to_follow |-> parse_f64_env(e, "MC_THRESHOLD_TO_FOLLOW", d.mc_threshold_to_follow)]

load_private_logic_settings(e) ==
    LET d == PrivateLogicConfig_default
        pct(key, dflt) ==
            unwrap_or(parse_f64_env_with_validation(e, key, dflt, 0, 100 * FScale), dflt)
    IN  [enabled         |-> parse_bool_env(e, "PRIVATE_LOGIC_ENABLED", d.enabled),
         stage_1_percent |-> pct("PL_STAGE_1_PERCENT", d.stage_1_percent),
         stage_1_delay   |-> parse_u64_env(e, "PL_STAGE_1_DELAY", d.stage_1_delay),
         stage_2_percent |-> pct("PL_STAGE_2_PERCENT", d.stage_2_percent),
         stage_2_delay   |-> parse_u64_env(e, "PL_STAGE_2_DELAY", d.stage_2_delay),
         stage_3_percent |-> pct("PL_STAGE_3_PERCENT", d.stage_3_percent),
         stage_3_delay   |-> parse_u64_env(e, "PL_STAGE_3_DELAY", d.stage_3_delay),
         stage_4_percent |-> pct("PL_STAGE_4_PERCENT", d.stage_4_percent),
         stage_4_delay   |-> parse_u64_env(e, "PL_STAGE_4_DELAY", d.stage_4_delay),
         stage_5_percent |-> pct("PL_STAGE_5_PERCENT", d.stage_5_percent),
         stage_5_delay   |-> parse_u64_env(e, "PL_STAGE_5_DELAY", d.stage_5_delay),
         stage_6_percent |-> pct("PL_STAGE_6_PERCENT", d.stage_6_percent),
         stage_6_delay   |-> parse_u64_env(e, "PL_STAGE_6_DELAY", d.stage_6_delay),
         stage_7_percent |-> pct("PL_STAGE_7_PERCENT", d.stage_7_percent),
         stage_7_delay   |-> parse_u64_env(e, "PL_STAGE_7_DELAY", d.stage_7_delay)]

load_inverse_buy_settings(e) ==
    LET d == InverseBuyConfig_default
    IN  [enabled    |-> parse_bool_env(e, "INVERSE_BUY_ENABLED", d.enabled),
         buy_amount |-> parse_f64_env(e, "INVERSE_BUY_AMOUNT", d.buy_amount)]

load_timer_settings(e) ==
    LET d == TimerConfig_default
    IN  [enabled           |-> parse_bool_env(e, "TIMER_ENABLED", d.enabled),
         start_time        |->
             unwrap_or(parse_time_format_env(e, "BOT_START_TIME", d.start_time),
                       d.start_time),
         stop_time         |->
             unwrap_or(parse_time_format_env(e, "BOT_STOP_TIME", d.stop_time),
                       d.stop_time),
         auto_sell_on_stop |-> parse_bool_env(e, "AUTO_SELL_ON_STOP", d.auto_sell_on_stop)]

load_mode_settings(e) ==
    LET d == ModeConfig_default
    IN  [simulation_mode |-> parse_bool_env(e, "SIMULATION_MODE", d.simulation_mode),
         live_mode       |-> parse_bool_env(e, "LIVE_MODE", d.live_mode),
         paper_trading   |-> parse_bool_env(e, "PAPER_TRADING", d.paper_trading)]

load_advanced_settings(e) ==
    LET d == AdvancedConfig_default
    IN  [limit_wait_time       |-> parse_u64_env(e, "LIMIT_WAIT_TIME", d.limit_wait_time),
         limit_buy_amount_in_limit_wait_time |->
             parse_f64_env(e, "LIMIT_BUY_AMOUNT_IN_LIMIT_WAIT_TIME",
                           d.limit_buy_amount_in_limit_wait_time),
         review_cycle_duration |-> parse_u64_env(e, "REVIEW_CYCLE_DURATION", d.review_cycle_duration),
         time_delta_threshold  |-> parse_u64_env(e, "TIME_DELTA_THRESHOLD", d.time_delta_threshold),
         price_delta_threshold |-> parse_f64_env(e, "PRICE_DELTA_THRESHOLD", d.price_delta_threshold),
         min_buy_confidence    |->
             unwrap_or(parse_f64_env_with_validation(e, "MIN_BUY_CONFIDENCE",
                           d.min_buy_confidence, 0, 1 * FScale),
                       d.min_buy_confidence),
         min_sell_confidence   |->
             unwrap_or(parse_f64_env_with_validation(e, "MIN_SELL_CONFIDENCE",
                           d.min_sell_confidence, 0, 1 * FScale),
                       d.min_sell_confidence),
         daily_buy_budget      |-> parse_f64_env(e, "DAILY_BUY_BUDGET", d.daily_buy_budget)]

\* every environment variable name the configuration reads
EnvNames ==
    {"THRESHOLD_SELL", "THRESHOLD_BUY", "MAX_WAIT_TIME", "PRIVATE_KEY", "RPC_HTTP",
     "RPC_WSS", "TIME_EXCEED", "TOKEN_AMOUNT", "UNIT_PRICE", "UNIT_LIMIT",
     "DOWNING_PERCENT", "SELL_ALL_TOKENS",
     "JITO_BLOCK_ENGINE_URL", "JITO_PRIORITY_FEE", "JITO_TIP_VALUE", "USE_JITO",
     "ZERO_SLOT_URL", "ZERO_SLOT_TIP_VALUE", "NOZOMI_URL", "NOZOMI_TIP_VALUE",
     "NETWORK", "REGION", "AUTH_HEADER", "BLOXROUTE_TIP_VALUE",
     "MIN_MARKET_CAP", "MAX_MARKET_CAP", "MARKET_CAP_ENABLED", "MIN_VOLUME",
     "MAX_VOLUME", "VOLUME_ENABLED", "MIN_NUMBER_OF_BUY_SELL",
     "MAX_NUMBER_OF_BUY_SELL", "BUY_SELL_COUNT_ENABLED", "SOL_INVESTED",
     "SOL_INVESTED_ENABLED", "MIN_LAUNCHER_SOL_BALANCE", "MAX_LAUNCHER_SOL_BALANCE",
     "LAUNCHER_SOL_ENABLED", "DEV_BUY_ENABLED",
     "COPY_TRADING_ENABLED", "BUY_SELL_PERCENT", "TARGET_WALLETS",
     "MULTI_TARGET_MODE", "MC_THRESHOLD_TO_BUY", "MC_THRESHOLD_TO_FOLLOW",
     "PRIVATE_LOGIC_ENABLED",
     "PL_STAGE_1_PERCENT", "PL_STAGE_1_DELAY", "PL_STAGE_2_PERCENT", "PL_STAGE_2_DELAY",
     "PL_STAGE_3_PERCENT", "PL_STAGE_3_DELAY", "PL_STAGE_4_PERCENT", "PL_STAGE_4_DELAY",
     "PL_STAGE_5_PERCENT", "PL_STAGE_5_DELAY", "PL_STAGE_6_PERCENT", "PL_STAGE_6_DELAY",
     "PL_STAGE_7_PERCENT", "PL_STAGE_7_DELAY",
     "INVERSE_BUY_ENABLED", "INVERSE_BUY_AMOUNT",
     "TIMER_ENABLED", "BOT_START_TIME", "BOT_STOP_TIME", "AUTO_SELL_ON_STOP",
     "SIMULATION_MODE", "LIVE_MODE", "PAPER_TRADING",
     "LIMIT_WAIT_TIME", "LIMIT_BUY_AMOUNT_IN_LIMIT_WAIT_TIME", "REVIEW_CYCLE_DURATION",
     "TIME_DELTA_THRESHOLD", "PRICE_DELTA_THRESHOLD", "MIN_BUY_CONFIDENCE",
     "MIN_SELL_CONFIDENCE", "DAILY_BUY_BUDGET",
     "YELLOWSTONE_GRPC_HTTP", "YELLOWSTONE_GRPC_TOKEN", "YELLOWSTONE_PING_INTERVAL",
     "YELLOWSTONE_RECONNECT_DELAY", "YELLOWSTONE_MAX_RETRIES", "SLIPPAGE", "COUNTER",
     "MAX_DEV_BUY", "MIN_DEV_BUY", "BUNDLE_CHECK", "TAKE_PROFIT_PERCENT",
     "STOP_LOSS_PERCENT", "MIN_LAST_TIME", "TELEGRAM_BOT_TOKEN", "TELEGRAM_CHAT_ID"}

\* ------------------------------------------------------------------ validator

\* ConfigError values: the variant, the field it names and its payload
ConfigError(kind, field, args) == [kind |-> kind, field |-> field, args |-> args]

\* variant: the strict comparison threshold_buy > threshold_sell
check_thresholds_strict(basic_trading) ==
    IF NumLt(basic_trading.threshold_sell, basic_trading.threshold_buy)
    THEN <<ConfigError("InvalidThresholds", "THRESHOLD",
                       <<basic_trading.threshold_buy, basic_trading.threshold_sell>>)>>
    ELSE <<>>

\* basic_trading.threshold_buy >= basic_trading.threshold_sell
check_thresholds(basic_trading) ==
    IF NumGe(basic_trading.threshold_buy, basic_trading.threshold_sell)
    THEN <<ConfigError("InvalidThresholds", "THRESHOLD",
                       <<basic_trading.threshold_buy, basic_trading.threshold_sell>>)>>
    ELSE <<>>

check_downing_percent(basic_trading) ==
    IF FLt(basic_trading.downing_percent, 0)
       \/ FGt(basic_trading.downing_percent, 100 * FScale)
    THEN <<ConfigError("InvalidPercentage", "DOWNING_PERCENT",
                       <<basic_trading.downing_percent>>)>>
    ELSE <<>>

check_market_cap(advanced_filters) ==
    IF FGt(advanced_filters.min_market_cap, advanced_filters.max_market_cap)
    THEN <<ConfigError("ValidationError", "MARKET_CAP", <<>>)>>
    ELSE <<>>

check_volume(advanced_filters) ==
    IF FGt(advanced_filters.min_volume, advanced_filters.max_volume)
    THEN <<ConfigError("ValidationError", "VOLUME", <<>>)>>
    ELSE <<>>

\* for wallet in &copy_trading.target_wallets: one error per invalid wallet
RECURSIVE check_wallets(_)
check_wallets(target_wallets) ==
    IF Len(target_wallets) = 0 THEN <<>>
    ELSE (IF ~is_valid_wallet_address(Head(target_wallets))
          THEN <<ConfigError("InvalidWalletAddress", "TARGET_WALLETS",
                             <<Head(target_wallets)>>)>>
          ELSE <<>>)
         \o check_wallets(Tail(target_wallets))

check_timer(timer) ==
    IF timer.enabled
    THEN (IF ~is_valid_time_format(timer.start_time)
          THEN <<ConfigError("InvalidTimeFormat", "BOT_START_TIME", <<timer.start_time>>)>>
          ELSE <<>>)
         \o
         (IF ~is_valid_time_format(timer.stop_time)
          THEN <<ConfigError("InvalidTimeFormat", "BOT_STOP_TIME", <<timer.stop_time>>)>>
          ELSE <<>>)
    ELSE <<>>

check_buy_confidence(advanced) ==
    IF FLt(advanced.min_buy_confidence, 0) \/ FGt(advanced.min_buy_confidence, 1 * FScale)
    THEN <<ConfigError("InvalidPercentage", "MIN_BUY_CONFIDENCE",
                       <<FMul(advanced.min_buy_confidence, 100)>>)>>
    ELSE <<>>

check_sell_confidence(advanced) ==
    IF FLt(advanced.min_sell_confidence, 0) \/ FGt(advanced.min_sell_confidence, 1 * FScale)
    THEN <<ConfigError("InvalidPercentage", "MIN_SELL_CONFIDENCE",
                       <<FMul(advanced.min_sell_confidence, 100)>>)>>
    ELSE <<>>

\* variant: a validator that returns at the first failing check
validate_first_error(basic_trading, jito, advanced_filters, copy_trading, private_logic, timer, advanced) ==
    LET errors == check_thresholds(basic_trading)
                  \o check_downing_percent(basic_trading)
                  \o check_market_cap(advanced_filters)
                  \o check_volume(advanced_filters)
                  \o check_wallets(copy_trading.target_wallets)
                  \o check_timer(timer)
                  \o check_buy_confidence(advanced)
                  \o check_sell_confidence(advanced)
    IN  IF Len(errors) > 1 THEN <<errors[1]>> ELSE errors

\* Config::validate_all_settings: the vector `errors` after the last check;
\* the function returns Ok(()) when it is empty and Err(errors) otherwise
validate_all_settings(basic_trading, jito, advanced_filters, copy_trading, private_logic, timer, advanced) ==
    check_thresholds(basic_trading)
    \o check_downing_percent(basic_trading)
    \o check_market_cap(advanced_filters)
    \o check_volume(advanced_filters)
    \o check_wallets(copy_trading.target_wallets)
    \o check_timer(timer)
    \o check_buy_confidence(advanced)
    \o check_sell_confidence(advanced)

\* ------------------------------------------------------------------ environments

\* the environment with no variable set
BaseEnv == [k \in EnvNames |-> None]

\* "11111111111111111111111111111112", a well-formed address
S_wallet32 == [i \in 1..32 |-> IF i = 32 THEN "2" ELSE "1"]
S_invalid == <<"i", "n", "v", "a", "l", "i", "d">>

\* values a variable may be set to: <<name, value>>, raw strings as the
\* process environment holds them (after dotenv() has merged the .env file)
Settings ==
    {
     <<"THRESHOLD_BUY", <<"5", "0", "0", "0", "0", "0", "0", "0", "0", "0">>>>,
     <<"THRESHOLD_BUY", <<"1", "0", "0", "0", "0", "0", "0", "0", "0", "0", "0">>>>,
     <<"THRESHOLD_BUY", <<"2", "0", "0", "0", "0", "0", "0", "0", "0", "0", "0">>>>,
     <<"THRESHOLD_BUY", <<"-", "1">>>>,
     <<"THRESHOLD_BUY", <<"a", "b", "c">>>>,
     <<"THRESHOLD_BUY", <<>>>>,
     <<"THRESHOLD_SELL", <<"3", "0", "0", "0", "0", "0", "0", "0", "0", "0">>>>,
     <<"THRESHOLD_SELL", <<"2", "0", "0", "0", "0", "0", "0", "0", "0", "0", "0">>>>,
     <<"THRESHOLD_SELL", <<"1">>>>,
     <<"THRESHOLD_SELL", <<"1", "8", "4", "4", "6", "7", "4", "4", "0", "7", "3", "7", "0", "9", "5", "5", "1", "6", "1", "6">>>>,
     <<"DOWNING_PERCENT", <<"0">>>>,
     <<"DOWNING_PERCENT", <<"1", "0", "0">>>>,
     <<"DOWNING_PERCENT", <<"1", "1", "0", ".", "0">>>>,
     <<"DOWNING_PERCENT", <<"-", "0", ".", "1">>>>,
     <<"DOWNING_PERCENT", <<"N", "a", "N">>>>,
     <<"DOWNING_PERCENT", <<"i", "n", "f">>>>,
     <<"DOWNING_PERCENT", <<"a", "b", "c">>>>,
     <<"MIN_MARKET_CAP", <<"1", "5">>>>,
     <<"MIN_MARKET_CAP", <<"2", "0">>>>,
     <<"MIN_MARKET_CAP", <<"1">>>>,
     <<"MIN_MARKET_CAP", <<"N", "a", "N">>>>,
     <<"MAX_MARKET_CAP", <<"8">>>>,
     <<"MAX_MARKET_CAP", <<"5">>>>,
     <<"MAX_MARKET_CAP", <<"1", "0", "0">>>>,
     <<"MIN_VOLUME", <<"1", "2">>>>,
     <<"MIN_VOLUME", <<"1", "3">>>>,
     <<"MAX_VOLUME", <<"5">>>>,
     <<"MAX_VOLUME", <<"4">>>>,
     <<"BUY_SELL_PERCENT", <<"5", "0">>>>,
     <<"BUY_SELL_PERCENT", <<"1", "5", "0">>>>,
     <<"BUY_SELL_PERCENT", <<"-", "1", "0">>>>,
     <<"BUY_SELL_PERCENT", <<"N", "a", "N">>>>,
     <<"BUY_SELL_PERCENT", <<"0">>>>,
     <<"BUY_SELL_PERCENT", <<"1", "0", "0">>>>,
     <<"PL_STAGE_1_PERCENT", <<"1", "5", ".", "0">>>>,
     <<"PL_STAGE_1_PERCENT", <<"1", "1", "0", ".", "0">>>>,
     <<"PL_STAGE_1_PERCENT", <<"N", "a", "N">>>>,
     <<"PL_STAGE_2_PERCENT", <<"1", "0", "1">>>>,
     <<"PL_STAGE_3_PERCENT", <<"1", "0", "1">>>>,
     <<"PL_STAGE_4_PERCENT", <<"1", "0", "1">>>>,
     <<"PL_STAGE_5_PERCENT", <<"1", "0", "1">>>>,
     <<"PL_STAGE_6_PERCENT", <<"1", "0", "1">>>>,
     <<"PL_STAGE_7_PERCENT", <<"1", "1", "0", ".", "0">>>>,
     <<"PL_STAGE_7_PERCENT", <<"0">>>>,
     <<"TIMER_ENABLED", <<"t", "r", "u", "e">>>>,
     <<"TIMER_ENABLED", <<"f", "a", "l", "s", "e">>>>,
     <<"TIMER_ENABLED", <<"1">>>>,
     <<"BOT_START_TIME", <<"1", "2", ":", "3", "0">>>>,
     <<"BOT_START_TIME", <<"2", "4", ":", "0", "0">>>>,
     <<"BOT_START_TIME", <<"1", "2", ":", "3">>>>,
     <<"BOT_START_TIME", <<"a", "b", "c">>>>,
     <<"BOT_START_TIME", <<>>>>,
     <<"BOT_STOP_TIME", <<"1", "2", ":", "6", "0">>>>,
     <<"BOT_STOP_TIME", <<"2", "3", ":", "5", "9">>>>,
     <<"BOT_STOP_TIME", <<"1", "2", "3", ":", "3", "0">>>>,
     <<"MIN_BUY_CONFIDENCE", <<"1", ".", "5">>>>,
     <<"MIN_BUY_CONFIDENCE", <<"-", "0", ".", "1">>>>,
     <<"MIN_BUY_CONFIDENCE", <<"0">>>>,
     <<"MIN_BUY_CONFIDENCE", <<"1">>>>,
     <<"MIN_BUY_CONFIDENCE", <<"N", "a", "N">>>>,
     <<"MIN_BUY_CONFIDENCE", <<"0", ".", "5">>>>,
     <<"MIN_SELL_CONFIDENCE", <<"1", ".", "5">>>>,
     <<"MIN_SELL_CONFIDENCE", <<"0", ".", "9">>>>,
     <<"MIN_SELL_CONFIDENCE", <<"N", "a", "N">>>>,
     <<"RPC_HTTP", <<"h", "t", "t", "p", ":", "/", "/", "r", "p", "c">>>>,
     <<"RPC_HTTP", <<>>>>,
     <<"PRIVATE_KEY", <<"a", "b", "c">>>>,
     <<"PRIVATE_KEY", <<>>>>,
     <<"PRIVATE_KEY", <<"0", "O", "I", "l">>>>,
     <<"PRIVATE_KEY", [i \in 1..88 |-> "2"]>>,
     <<"TOKEN_AMOUNT", <<"5">>>>,
     <<"TOKEN_AMOUNT", <<"2", ".", "5">>>>,
     <<"TIME_EXCEED", <<"6", "0">>>>,
     <<"TIME_EXCEED", <<"a", "b", "c">>>>,
     <<"USE_JITO", <<"t", "r", "u", "e">>>>,
     <<"TARGET_WALLETS", S_wallet32>>,
     <<"TARGET_WALLETS", <<"w", "a", "l", "l", "e", "t", "1", ",", " ", "w", "a", "l", "l", "e", "t", "2", " ", ",", "w", "a", "l", "l", "e", "t", "3">>>>,
     <<"TARGET_WALLETS", S_wallet32 \o <<",">> \o S_invalid>>,
     <<"TARGET_WALLETS", S_invalid \o <<",", " ", "b", "a", "d", "!">>>>,
     <<"TARGET_WALLETS", <<",">>>>,
     <<"TARGET_WALLETS", S_empty>>
    }

\* pairs of variables that one rule relates, set together
RelatedNames ==
    {<<"THRESHOLD_BUY", "THRESHOLD_SELL">>, <<"MIN_MARKET_CAP", "MAX_MARKET_CAP">>,
     <<"MIN_VOLUME", "MAX_VOLUME">>, <<"TIMER_ENABLED", "BOT_START_TIME">>,
     <<"TIMER_ENABLED", "BOT_STOP_TIME">>, <<"DOWNING_PERCENT", "TARGET_WALLETS">>}

set_var(e, key, value) == [e EXCEPT ![key] = Some(value)]

\* environments of process start: nothing set, one variable set, or two
\* related variables set
Environments ==
    {BaseEnv}
    \cup {set_var(BaseEnv, p[1], p[2]) : p \in Settings}
    \cup {set_var(set_var(BaseEnv, pq[1][1], pq[1][2]), pq[2][1], pq[2][2]) :
            pq \in {x \in Settings \X Settings : <<x[1][1], x[2][1]>> \in RelatedNames}}

\* environments of the lifecycle specification
LifecycleEnvs ==
    {BaseEnv,
     set_var(BaseEnv, "THRESHOLD_BUY",
             <<"2", "0", "0", "0", "0", "0", "0", "0", "0", "0", "0">>),
     set_var(set_var(BaseEnv, "DOWNING_PERCENT", <<"1", "1", "0", ".", "0">>),
             "TARGET_WALLETS", S_invalid)}

\* ------------------------------------------------------------------ bounds

\* tasks that call Config::new
NumCallers == 2
\* calls of Config::new one task makes
MaxCalls == 2
\* changes of the process environment after start (env::set_var)
MaxEnvChanges == 1
\* target wallets in a record handed to the validator
MaxWallets == 2

Callers == 1..NumCallers

\* ------------------------------------------------------------------ state

VARIABLES
    env,        \* the process environment: name -> Option<String>
    cell,       \* GLOBAL_CONFIG's value: None, or Some of the Mutex<Config> built
    sem,        \* GLOBAL_CONFIG's semaphore: permits left, and whether closed
    mutex,      \* permits of the Mutex around the Config (1 when unlocked)
    pc,         \* where each task is
    got,        \* the instance each task's last call of Config::new returned (0: none)
    calls,      \* calls of Config::new each task has made
    loc,        \* the initializer's local variables, per task running it
    log,        \* lines written by logger.log
    initRuns,   \* times the initializer body was entered
    loaderRuns, \* times the category loaders ran
    validatorRuns, \* times validate_all_settings ran
    envChanges, \* changes made to the environment since start
    vin,        \* records handed to validate_all_settings called on its own
    vout,       \* what that call returned: None before the call
    pin,        \* arguments of the primitive parsers called on their own
    pout,       \* what those calls returned: None before the calls
    doc,        \* the exported settings document: None before the export
    reloaded    \* the category records re-loaded from doc: None before

vars ==
    <<env, cell, sem, mutex, pc, got, calls, loc, log, initRuns, loaderRuns,
      validatorRuns, envChanges, vin, vout, pin, pout, doc, reloaded>>

\* logger.log lines: the warning header, one line per error, the final line
LogLine(msg, error) == [msg |-> msg, error |-> error]
NoError == ConfigError("", "", <<>>)

NoLocals == [step |-> "none"]

\* no call of a primitive parser on its own
NoArgs == [default_u64 |-> <<0>>]

\* OnceCell::initialized
initialized == is_some(cell)

\* the lifecycle state of the singleton
Lifecycle ==
    IF initialized THEN "Ready"
    ELSE IF sem.permits = 0 THEN "Initializing"
    ELSE "Uninitialized"

InitWith(envs, inputs) ==
    /\ env \in envs
    /\ cell = None
    /\ sem = [permits |-> 1, closed |-> FALSE]
    /\ mutex = 1
    /\ pc = [c \in Callers |-> "idle"]
    /\ got = [c \in Callers |-> 0]
    /\ calls = [c \in Callers |-> 0]
    /\ loc = [c \in Callers |-> NoLocals]
    /\ log = <<>>
    /\ initRuns = 0
    /\ loaderRuns = 0
    /\ validatorRuns = 0
    /\ envChanges = 0
    /\ vin \in inputs
    /\ vout = None
    /\ pin = NoArgs
    /\ pout = None
    /\ doc = None
    /\ reloaded = None

\* ------------------------------------------------------------------ Config::new

\* a task calls Config::new().await
Call(c) ==
    /\ pc[c] = "idle"
    /\ calls[c] < MaxCalls
    /\ pc' = [pc EXCEPT ![c] = "get_or_init"]
    /\ calls' = [calls EXCEPT ![c] = @ + 1]
    /\ UNCHANGED <<env, cell, sem, mutex, got, loc, log, initRuns, loaderRuns,
                   validatorRuns, envChanges, vin, vout, pin, pout,
                   doc, reloaded>>

\* variant: a constructor without the cell, every call runs the initializer
GetOrInit_fresh(c) ==
    /\ pc[c] = "get_or_init"
    /\ pc' = [pc EXCEPT ![c] = "load"]
    /\ initRuns' = initRuns + 1
    /\ loc' = [loc EXCEPT ![c] = [step |-> "entered", instance |-> initRuns + 1]]
    /\ UNCHANGED <<env, cell, sem, mutex, got, calls, log, loaderRuns, validatorRuns,
                   envChanges, vin, vout, pin, pout,
                   doc, reloaded>>

\* get_or_init: if self.initialized() the value is returned at once,
\* otherwise the task goes on to semaphore.acquire()
GetOrInit(c) ==
    /\ pc[c] = "get_or_init"
    /\ IF initialized
       THEN /\ pc' = [pc EXCEPT ![c] = "have"]
            /\ got' = [got EXCEPT ![c] = cell[1].instance]
       ELSE /\ pc' = [pc EXCEPT ![c] = "acquire"]
            /\ got' = got
    /\ UNCHANGED <<env, cell, sem, mutex, calls, loc, log, initRuns, loaderRuns,
                   validatorRuns, envChanges, vin, vout, pin, pout,
                   doc, reloaded>>

\* variant: acquire() hands out a permit although none is left
AcquirePermit_unguarded(c) ==
    /\ pc[c] = "acquire"
    /\ ~sem.closed
    /\ sem' = [sem EXCEPT !.permits = IF @ > 0 THEN @ - 1 ELSE 0]
    /\ pc' = [pc EXCEPT ![c] = "load"]
    /\ initRuns' = initRuns + 1
    /\ loc' = [loc EXCEPT ![c] = [step |-> "entered", instance |-> initRuns + 1]]
    /\ UNCHANGED <<env, cell, mutex, got, calls, log, loaderRuns, validatorRuns,
                   envChanges, vin, vout, pin, pout,
                   doc, reloaded>>

\* semaphore.acquire() returns Ok(permit): the task enters the initializer
AcquirePermit(c) ==
    /\ pc[c] = "acquire"
    /\ ~sem.closed
    /\ sem.permits > 0
    /\ sem' = [sem EXCEPT !.permits = @ - 1]
    /\ pc' = [pc EXCEPT ![c] = "load"]
    /\ initRuns' = initRuns + 1
    /\ loc' = [loc EXCEPT ![c] = [step |-> "entered", instance |-> initRuns + 1]]
    /\ UNCHANGED <<env, cell, mutex, got, calls, log, loaderRuns, validatorRuns,
                   envChanges, vin, vout, pin, pout,
                   doc, reloaded>>

\* semaphore.acquire() returns Err: the semaphore was closed by set_value,
\* the value is there and is returned
AcquireClosed(c) ==
    /\ pc[c] = "acquire"
    /\ sem.closed
    /\ pc' = [pc EXCEPT ![c] = "have"]
    /\ got' = [got EXCEPT ![c] = cell[1].instance]
    /\ UNCHANGED <<env, cell, sem, mutex, calls, loc, log, initRuns, loaderRuns,
                   validatorRuns, envChanges, vin, vout, pin, pout,
                   doc, reloaded>>

\* the legacy flat fields read at the start of the initializer
load_legacy(e) ==
    [yellowstone_grpc_http       |-> var_or_default(e, "YELLOWSTONE_GRPC_HTTP"),
     yellowstone_grpc_token      |-> var_or_default(e, "YELLOWSTONE_GRPC_TOKEN"),
     yellowstone_ping_interval   |-> parse_u64_env(e, "YELLOWSTONE_PING_INTERVAL", IntToNum(30)),
     yellowstone_reconnect_delay |-> parse_u64_env(e, "YELLOWSTONE_RECONNECT_DELAY", IntToNum(5)),
     yellowstone_max_retries     |-> parse_u32_env(e, "YELLOWSTONE_MAX_RETRIES", IntToNum(10)),
     slippage_input              |-> parse_u64_env(e, "SLIPPAGE", IntToNum(100)),
     counter_limit               |-> parse_u32_env(e, "COUNTER", IntToNum(10)),
     max_dev_buy                 |-> parse_u32_env(e, "MAX_DEV_BUY", IntToNum(30)),
     min_dev_buy                 |-> parse_u32_env(e, "MIN_DEV_BUY", IntToNum(5)),
     bundle_check                |-> parse_bool_env(e, "BUNDLE_CHECK", TRUE),
     time_exceed                 |-> parse_u64_env(e, "TIME_EXCEED", IntToNum(30)),
     amount_in                   |-> parse_f64_env(e, "TOKEN_AMOUNT", 1 * FScale),
     use_jito                    |-> parse_bool_env(e, "USE_JITO", FALSE),
     take_profit_percent         |-> parse_f64_env(e, "TAKE_PROFIT_PERCENT", 50 * FScale),
     stop_loss_percent           |-> parse_f64_env(e, "STOP_LOSS_PERCENT", 30 * FScale),
     min_last_time               |-> parse_u64_env(e, "MIN_LAST_TIME", IntToNum(300000))]

\* the twelve category loaders, in the initializer's order
load_categories(e) ==
    [basic_trading    |-> load_basic_trading_settings(e),
     jito             |-> load_jito_settings(e),
     zero_slot        |-> load_zero_slot_settings(e),
     nozomi           |-> load_nozomi_settings(e),
     blox_route       |-> load_blox_route_settings(e),
     advanced_filters |-> load_advanced_filter_settings(e),
     copy_trading     |-> load_copy_trading_settings(e),
     private_logic    |-> load_private_logic_settings(e),
     inverse_buy      |-> load_inverse_buy_settings(e),
     timer            |-> load_timer_settings(e),
     mode             |-> load_mode_settings(e),
     advanced         |-> load_advanced_settings(e)]

\* the variables each category loader reads
LoaderVars ==
    [basic_trading |->
         {"THRESHOLD_SELL", "THRESHOLD_BUY", "MAX_WAIT_TIME", "PRIVATE_KEY",
          "RPC_HTTP", "RPC_WSS", "TIME_EXCEED", "TOKEN_AMOUNT", "UNIT_PRICE",
          "UNIT_LIMIT", "DOWNING_PERCENT", "SELL_ALL_TOKENS"},
     jito |->
         {"JITO_BLOCK_ENGINE_URL", "JITO_PRIORITY_FEE", "JITO_TIP_VALUE",
          "USE_JITO"},
     zero_slot |->
         {"ZERO_SLOT_URL", "ZERO_SLOT_TIP_VALUE"},
     nozomi |->
         {"NOZOMI_URL", "NOZOMI_TIP_VALUE"},
     blox_route |->
         {"NETWORK", "REGION", "AUTH_HEADER", "BLOXROUTE_TIP_VALUE"},
     advanced_filters |->
         {"MIN_MARKET_CAP", "MAX_MARKET_CAP", "MARKET_CAP_ENABLED",
          "MIN_VOLUME", "MAX_VOLUME", "VOLUME_ENABLED",
          "MIN_NUMBER_OF_BUY_SELL", "MAX_NUMBER_OF_BUY_SELL",
          "BUY_SELL_COUNT_ENABLED", "SOL_INVESTED", "SOL_INVESTED_ENABLED",
          "MIN_LAUNCHER_SOL_BALANCE", "MAX_LAUNCHER_SOL_BALANCE",
          "LAUNCHER_SOL_ENABLED", "DEV_BUY_ENABLED"},
     copy_trading |->
         {"TARGET_WALLETS", "COPY_TRADING_ENABLED", "BUY_SELL_PERCENT",
          "MULTI_TARGET_MODE", "MC_THRESHOLD_TO_BUY", "MC_THRESHOLD_TO_FOLLOW"},
     private_logic |->
         {"PRIVATE_LOGIC_ENABLED", "PL_STAGE_1_PERCENT", "PL_STAGE_1_DELAY",
          "PL_STAGE_2_PERCENT", "PL_STAGE_2_DELAY", "PL_STAGE_3_PERCENT",
          "PL_STAGE_3_DELAY", "PL_STAGE_4_PERCENT", "PL_STAGE_4_DELAY",
          "PL_STAGE_5_PERCENT", "PL_STAGE_5_DELAY", "PL_STAGE_6_PERCENT",
          "PL_STAGE_6_DELAY", "PL_STAGE_7_PERCENT", "PL_STAGE_7_DELAY"},
     inverse_buy |->
         {"INVERSE_BUY_ENABLED", "INVERSE_BUY_AMOUNT"},
     timer |->
         {"TIMER_ENABLED", "BOT_START_TIME", "BOT_STOP_TIME",
          "AUTO_SELL_ON_STOP"},
     mode |->
         {"SIMULATION_MODE", "LIVE_MODE", "PAPER_TRADING"},
     advanced |->
         {"LIMIT_WAIT_TIME", "LIMIT_BUY_AMOUNT_IN_LIMIT_WAIT_TIME",
          "REVIEW_CYCLE_DURATION", "TIME_DELTA_THRESHOLD",
          "PRICE_DELTA_THRESHOLD", "MIN_BUY_CONFIDENCE", "MIN_SELL_CONFIDENCE",
          "DAILY_BUY_BUDGET"}]

\* what the loaders return in each environment of the model
Loaded ==
    [e \in Environments \cup LifecycleEnvs |->
        [legacy |-> load_legacy(e), recs |-> load_categories(e)]]

\* initializer, first part: dotenv, the legacy fields and the loaders
InitLoad(c) ==
    /\ pc[c] = "load"
    /\ loc' = [loc EXCEPT ![c] =
                 [step |-> "loaded", instance |-> loc[c].instance,
                  legacy |-> Loaded[env].legacy, recs |-> Loaded[env].recs]]
    /\ loaderRuns' = loaderRuns + 1
    /\ pc' = [pc EXCEPT ![c] = "validate"]
    /\ UNCHANGED <<env, cell, sem, mutex, got, calls, log, initRuns, validatorRuns,
                   envChanges, vin, vout, pin, pout,
                   doc, reloaded>>

\* the validator applied to the loaded records
validate_loaded(recs) ==
    validate_all_settings(recs.basic_trading, recs.jito, recs.advanced_filters,
                          recs.copy_trading, recs.private_logic, recs.timer,
                          recs.advanced)

\* what the initializer logs for the validator's result
report_validation(errors) ==
    IF Len(errors) > 0
    THEN <<LogLine("validation errors found", NoError)>>
         \o [i \in 1..Len(errors) |-> LogLine("error", errors[i])]
    ELSE <<>>

\* variant: a record set that fails validation is replaced by the defaults
InitValidate_reset(c) ==
    LET errors == validate_loaded(loc[c].recs)
    IN  /\ pc[c] = "validate"
        /\ log' = log \o report_validation(errors)
        /\ validatorRuns' = validatorRuns + 1
        /\ loc' = [loc EXCEPT ![c] =
                     [step |-> "validated", instance |-> loc[c].instance,
                      legacy |-> loc[c].legacy,
                      recs |-> IF Len(errors) > 0 THEN Loaded[BaseEnv].recs
                               ELSE loc[c].recs,
                      errors |-> errors]]
        /\ pc' = [pc EXCEPT ![c] = "handles"]
        /\ UNCHANGED <<env, cell, sem, mutex, got, calls, initRuns, loaderRuns,
                       envChanges, vin, vout, pin, pout, doc, reloaded>>

\* variant: the initializer stops when the validator reports an error
InitValidate_strict(c) ==
    LET errors == validate_loaded(loc[c].recs)
    IN  /\ pc[c] = "validate"
        /\ Len(errors) = 0
        /\ log' = log \o report_validation(errors)
        /\ validatorRuns' = validatorRuns + 1
        /\ loc' = [loc EXCEPT ![c] =
                     [step |-> "validated", instance |-> loc[c].instance,
                      legacy |-> loc[c].legacy, recs |-> loc[c].recs,
                      errors |-> errors]]
        /\ pc' = [pc EXCEPT ![c] = "handles"]
        /\ UNCHANGED <<env, cell, sem, mutex, got, calls, initRuns, loaderRuns,
                       envChanges, vin, vout, pin, pout,
                   doc, reloaded>>

\* initializer, second part: validate all settings and log the errors
InitValidate(c) ==
    LET errors == validate_loaded(loc[c].recs)
    IN  /\ pc[c] = "validate"
        /\ log' = log \o report_validation(errors)
        /\ validatorRuns' = validatorRuns + 1
        /\ loc' = [loc EXCEPT ![c] =
                     [step |-> "validated", instance |-> loc[c].instance,
                      legacy |-> loc[c].legacy, recs |-> loc[c].recs,
                      errors |-> errors]]
        /\ pc' = [pc EXCEPT ![c] = "handles"]
        /\ UNCHANGED <<env, cell, sem, mutex, got, calls, initRuns, loaderRuns,
                       envChanges, vin, vout, pin, pout,
                   doc, reloaded>>

\* ------------------------------------------------------------------ runtime handles

\* the alphabet bs58::decode accepts
Base58 == (Digits \cup Letters) \ {"0", "O", "I", "l"}

\* import_wallet: a fresh key when PRIVATE_KEY is empty or unset, the decoded
\* key when it decodes (base58, 64 bytes: 87 or 88 characters), else Err (None)
import_wallet(e) ==
    LET private_key == var_or_default(e, "PRIVATE_KEY")
    IN  IF Len(private_key) = 0 THEN Some([generated |-> TRUE, key |-> S_empty])
        ELSE IF \E i \in 1..Len(private_key) : private_key[i] \notin Base58
        THEN None
        ELSE IF Len(private_key) \notin {87, 88} THEN None
        ELSE Some([generated |-> FALSE, key |-> private_key])

\* create_rpc_client: always Ok, the client of RPC_HTTP or of the mainnet URL
create_rpc_client(e) ==
    Some([url |-> unwrap_or(var(e, "RPC_HTTP"), S_mainnet_http)])

\* AppState { rpc_client, rpc_nonblocking_client, wallet }
build_app_state(e) ==
    [rpc_client             |-> create_rpc_client(e)[1],
     rpc_nonblocking_client |-> [url |-> var_or_default(e, "RPC_HTTP")],
     wallet                 |->
         unwrap_or(import_wallet(e), [generated |-> TRUE, key |-> S_empty])]

\* variant: the wallet is unwrapped, as the blocking client is
InitHandles_unwrap(c) ==
    /\ pc[c] = "handles"
    /\ is_some(create_rpc_client(env))
    /\ is_some(import_wallet(env))
    /\ loc' = [loc EXCEPT ![c] =
                 [step |-> "handles", instance |-> loc[c].instance,
                  legacy |-> loc[c].legacy, recs |-> loc[c].recs,
                  errors |-> loc[c].errors,
                  swap_config |->
                      [swap_direction |-> "Buy", in_type |-> "Qty",
                       amount_in |-> loc[c].legacy.amount_in,
                       slippage |-> loc[c].legacy.slippage_input,
                       use_jito |-> loc[c].legacy.use_jito],
                  telegram_bot_token |-> var_or_default(env, "TELEGRAM_BOT_TOKEN"),
                  telegram_chat_id |-> var_or_default(env, "TELEGRAM_CHAT_ID"),
                  app_state |-> build_app_state(env)]]
    /\ pc' = [pc EXCEPT ![c] = "build"]
    /\ UNCHANGED <<env, cell, sem, mutex, got, calls, log, initRuns, loaderRuns,
                   validatorRuns, envChanges, vin, vout, pin, pout,
                   doc, reloaded>>

\* initializer, third part: swap_config, the telegram fields and app_state
InitHandles(c) ==
    /\ pc[c] = "handles"
    /\ is_some(create_rpc_client(env))
    /\ loc' = [loc EXCEPT ![c] =
                 [step |-> "handles", instance |-> loc[c].instance,
                  legacy |-> loc[c].legacy, recs |-> loc[c].recs,
                  errors |-> loc[c].errors,
                  swap_config |->
                      [swap_direction |-> "Buy", in_type |-> "Qty",
                       amount_in |-> loc[c].legacy.amount_in,
                       slippage |-> loc[c].legacy.slippage_input,
                       use_jito |-> loc[c].legacy.use_jito],
                  telegram_bot_token |-> var_or_default(env, "TELEGRAM_BOT_TOKEN"),
                  telegram_chat_id |-> var_or_default(env, "TELEGRAM_CHAT_ID"),
                  app_state |-> build_app_state(env)]]
    /\ pc' = [pc EXCEPT ![c] = "build"]
    /\ UNCHANGED <<env, cell, sem, mutex, got, calls, log, initRuns, loaderRuns,
                   validatorRuns, envChanges, vin, vout, pin, pout,
                   doc, reloaded>>

\* Config { .. } from the initializer's locals
build_config(l) ==
    [instance                    |-> l.instance,
     yellowstone_grpc_http       |-> l.legacy.yellowstone_grpc_http,
     yellowstone_grpc_token      |-> l.legacy.yellowstone_grpc_token,
     yellowstone_ping_interval   |-> l.legacy.yellowstone_ping_interval,
     yellowstone_reconnect_delay |-> l.legacy.yellowstone_reconnect_delay,
     yellowstone_max_retries     |-> l.legacy.yellowstone_max_retries,
     app_state                   |-> l.app_state,
     swap_config                 |-> l.swap_config,
     time_exceed                 |-> l.legacy.time_exceed,
     counter_limit               |-> l.legacy.counter_limit,
     min_dev_buy                 |-> l.legacy.min_dev_buy,
     max_dev_buy                 |-> l.legacy.max_dev_buy,
     telegram_bot_token          |-> l.telegram_bot_token,
     telegram_chat_id            |-> l.telegram_chat_id,
     bundle_check                |-> l.legacy.bundle_check,
     take_profit_percent         |-> l.legacy.take_profit_percent,
     stop_loss_percent           |-> l.legacy.stop_loss_percent,
     min_last_time               |-> l.legacy.min_last_time,
     basic_trading               |-> l.recs.basic_trading,
     jito                        |-> l.recs.jito,
     zero_slot                   |-> l.recs.zero_slot,
     nozomi                      |-> l.recs.nozomi,
     blox_route                  |-> l.recs.blox_route,
     advanced_filters            |-> l.recs.advanced_filters,
     copy_trading                |-> l.recs.copy_trading,
     private_logic               |-> l.recs.private_logic,
     inverse_buy                 |-> l.recs.inverse_buy,
     timer                       |-> l.recs.timer,
     mode                        |-> l.recs.mode,
     advanced                    |-> l.recs.advanced]

\* variant: set_value forgets the permit and leaves the semaphore open
set_value_sem_open(s) == [permits |-> s.permits, closed |-> s.closed]

\* OnceCell::set_value: the value is written, the semaphore closed and the
\* permit forgotten
set_value_sem(s) == [permits |-> s.permits, closed |-> TRUE]

\* variant: the permit is given back before the value is stored
InitFinish_release(c) ==
    /\ pc[c] = "build"
    /\ sem' = [sem EXCEPT !.permits = @ + 1]
    /\ pc' = [pc EXCEPT ![c] = "stored"]
    /\ UNCHANGED <<env, cell, mutex, got, calls, loc, log, initRuns, loaderRuns,
                   validatorRuns, envChanges, vin, vout, pin, pout,
                   doc, reloaded>>

\* initializer, last part: the Config is built, the final line logged, and
\* get_or_init stores Mutex::new(config) in the cell and returns it
InitFinish(c) ==
    /\ pc[c] = "build"
    /\ cell' = Some(build_config(loc[c]))
    /\ log' = Append(log, LogLine("all settings loaded", NoError))
    /\ sem' = set_value_sem(sem)
    /\ got' = [got EXCEPT ![c] = loc[c].instance]
    /\ loc' = [loc EXCEPT ![c] = NoLocals]
    /\ pc' = [pc EXCEPT ![c] = "have"]
    /\ UNCHANGED <<env, mutex, calls, initRuns, loaderRuns, validatorRuns,
                   envChanges, vin, vout, pin, pout,
                   doc, reloaded>>

\* ------------------------------------------------------------------ the guard

\* variant: a lock that never waits
lock_available_always(m) == TRUE

\* whether Mutex::lock can take the guard
lock_available(m) == m > 0

\* config.lock().await on the reference Config::new returned
Lock(c) ==
    /\ pc[c] = "have"
    /\ lock_available(mutex)
    /\ mutex' = mutex - 1
    /\ pc' = [pc EXCEPT ![c] = "locked"]
    /\ UNCHANGED <<env, cell, sem, got, calls, loc, log, initRuns, loaderRuns,
                   validatorRuns, envChanges, vin, vout, pin, pout,
                   doc, reloaded>>

\* the guard is dropped
Unlock(c) ==
    /\ pc[c] = "locked"
    /\ mutex' = mutex + 1
    /\ pc' = [pc EXCEPT ![c] = "idle"]
    /\ UNCHANGED <<env, cell, sem, got, calls, loc, log, initRuns, loaderRuns,
                   validatorRuns, envChanges, vin, vout, pin, pout,
                   doc, reloaded>>

\* ------------------------------------------------------------------ the environment changes

\* env::set_var / env::remove_var by the process (as the tests do)
SetEnv ==
    /\ envChanges < MaxEnvChanges
    /\ env' \in LifecycleEnvs \ {env}
    /\ envChanges' = envChanges + 1
    /\ UNCHANGED <<cell, sem, mutex, pc, got, calls, loc, log, initRuns, loaderRuns,
                   validatorRuns, vin, vout, pin, pout,
                   doc, reloaded>>

\* ------------------------------------------------------------------ specifications

Step(c) ==
    \/ GetOrInit(c)
    \/ AcquirePermit(c)
    \/ AcquireClosed(c)
    \/ InitLoad(c)
    \/ InitValidate(c)
    \/ InitHandles(c)
    \/ InitFinish(c)

\* no call of the validator on its own
NoInput == [ix |-> <<>>]

Init == InitWith(LifecycleEnvs, {NoInput})

Next ==
    \/ \E c \in Callers : Call(c) \/ Step(c) \/ Lock(c) \/ Unlock(c)
    \/ SetEnv

\* tasks calling Config::new concurrently while the environment may change
Spec == Init /\ [][Next]_vars

\* the runtime polls every task that can make progress
FairSpec == Spec /\ \A c \in Callers : WF_vars(Step(c))

\* ---- a fatal failure of the initializer

\* The initializer panics while it constructs the runtime handles
\* (create_rpc_client().unwrap() and the client constructors it calls): the
\* future passed to get_or_init unwinds, its permit is dropped and so
\* returned to the semaphore, the cell stays unset and the task is gone.
InitPanic(c) ==
    /\ pc[c] = "handles"
    /\ sem' = [sem EXCEPT !.permits = @ + 1]
    /\ loc' = [loc EXCEPT ![c] = NoLocals]
    /\ pc' = [pc EXCEPT ![c] = "panicked"]
    /\ UNCHANGED <<env, cell, mutex, got, calls, log, initRuns, loaderRuns,
                   validatorRuns, envChanges, vin, vout, pin, pout,
                   doc, reloaded>>

NextAbort ==
    \/ Next
    \/ \E c \in Callers : InitPanic(c)

\* as Spec, with a construction of the runtime handles that can fail
SpecAbort == Init /\ [][NextAbort]_vars

\* ---- every start environment, one task

InitEnv == InitWith(Environments, {NoInput})

NextEnv == \E c \in Callers : Call(c) \/ Step(c) \/ Lock(c) \/ Unlock(c)

\* one task constructs the aggregate from any start environment
SpecEnv == InitEnv /\ [][NextEnv]_vars

\* ---- the validator called on its own (as the unit tests call it)

\* u64 values in ascending order
ThresholdValues ==
    <<IntToNum(1),
      <<3, 0, 0, 0, 0, 0, 0, 0, 0, 0>>,
      <<5, 0, 0, 0, 0, 0, 0, 0, 0, 0>>,
      <<9, 9, 9, 9, 9, 9, 9, 9, 9, 9>>,
      <<1, 0, 0, 0, 0, 0, 0, 0, 0, 0, 0>>,
      <<2, 0, 0, 0, 0, 0, 0, 0, 0, 0, 0>>>>

\* wallet lists of up to MaxWallets addresses
WalletLists ==
    UNION {[1..n -> {S_wallet32, S_invalid}] : n \in 0..MaxWallets}

S_2400 == <<"2", "4", ":", "0", "0">>
S_1260 == <<"1", "2", ":", "6", "0">>

\* records handed to the validator: the defaults with the validated fields
\* drawn from small sets; ix keeps the positions of the two thresholds in
\* ThresholdValues
ValidatorInputs ==
    {[ix               |-> <<b, s>>,
      basic_trading    |-> [BasicTradingConfig_default EXCEPT
                               !.threshold_buy = ThresholdValues[b],
                               !.threshold_sell = ThresholdValues[s],
                               !.downing_percent = dp],
      jito             |-> JitoConfig_default,
      advanced_filters |-> [AdvancedFilterSettings_default EXCEPT
                               !.min_market_cap = mc, !.min_volume = mv],
      copy_trading     |-> [CopyTradingConfig_default EXCEPT !.target_wallets = w],
      private_logic    |-> PrivateLogicConfig_default,
      timer            |-> [TimerConfig_default EXCEPT
                               !.enabled = t[1], !.start_time = t[2], !.stop_time = t[3]],
      advanced         |-> [AdvancedConfig_default EXCEPT
                               !.min_buy_confidence = cf[1],
                               !.min_sell_confidence = cf[2]]] :
        b \in {2, 3, 5}, s \in {2, 5},
        dp \in {50 * FScale, 100 * FScale + 1, NaN},
        mc \in {8 * FScale, 15 * FScale, 20 * FScale},
        mv \in {5 * FScale, 13 * FScale},
        w \in WalletLists,
        t \in BOOLEAN \X {S_0000, S_2400} \X {S_2359, S_1260},
        cf \in {<<700, 600>>, <<1500, 600>>, <<-100, 1500>>}}

\* the Default value of every category record
DefaultInput ==
    [ix               |-> <<2, 5>>,
     basic_trading    |-> BasicTradingConfig_default,
     jito             |-> JitoConfig_default,
     advanced_filters |-> AdvancedFilterSettings_default,
     copy_trading     |-> CopyTradingConfig_default,
     private_logic    |-> PrivateLogicConfig_default,
     timer            |-> TimerConfig_default,
     advanced         |-> AdvancedConfig_default]

\* Config::validate_all_settings(&basic_trading, .., &advanced)
ApplyValidate ==
    /\ vin # NoInput
    /\ is_none(vout)
    /\ vout' = Some(validate_all_settings(vin.basic_trading, vin.jito,
                        vin.advanced_filters, vin.copy_trading,
                        vin.private_logic, vin.timer, vin.advanced))
    /\ UNCHANGED <<env, cell, sem, mutex, pc, got, calls, loc, log, initRuns,
                   loaderRuns, validatorRuns, envChanges, vin, pin, pout,
                   doc, reloaded>>

\* f64 values around the bounds of a percentage and of a confidence
PercentValues == {0, 50 * FScale, 100 * FScale, 110 * FScale, -100}
ConfidenceValues == {0, 700, 1 * FScale, 1500, -100}

\* the seven staged-exit percentage fields of PrivateLogicConfig
StageField ==
    <<"stage_1_percent", "stage_2_percent", "stage_3_percent", "stage_4_percent",
      "stage_5_percent", "stage_6_percent", "stage_7_percent">>

\* the defaults with the percentage fields drawn from PercentValues
PercentInputs ==
    {[DefaultInput EXCEPT
         !.basic_trading.downing_percent = dp,
         !.copy_trading.buy_sell_percent = bsp,
         !.private_logic[StageField[k]] = v] :
        dp \in PercentValues, bsp \in PercentValues,
        k \in 1..7, v \in PercentValues}

\* the defaults with the two confidences drawn from ConfidenceValues
ConfidenceInputs ==
    {[DefaultInput EXCEPT
         !.advanced.min_buy_confidence = cb,
         !.advanced.min_sell_confidence = cs] :
        cb \in ConfidenceValues, cs \in ConfidenceValues}

\* the defaults with the scheduling window on or off and its two strings
\* well formed, out of range, or short of a digit
TimerInputs ==
    {[DefaultInput EXCEPT
         !.timer.enabled = en, !.timer.start_time = st, !.timer.stop_time = sp] :
        en \in BOOLEAN,
        st \in {S_0000, S_2400, <<"1", "2", ":", "3">>},
        sp \in {S_2359, S_1260, <<"1", ":", "0", "5">>}}

\* the records that differ from the defaults in one group of fields
DefaultVariations ==
    {DefaultInput} \cup PercentInputs \cup ConfidenceInputs \cup TimerInputs

\* the validator is called on a record of ValidatorInputs or on a variation
\* of the defaults
InitValidator ==
    \/ InitWith({BaseEnv}, ValidatorInputs)
    \/ InitWith({BaseEnv}, DefaultVariations)

\* the validator as a function of the records it is given
SpecValidate == InitValidator /\ [][ApplyValidate]_vars

\* ------------------------------------------------------------------ the primitive functions on their own

\* Strings a variable may hold, each with what Rust's FromStr gives for the
\* target type: Some(value), or None when the conversion fails.
U64Cases ==
    {<<<<"5">>, Some(<<5>>)>>,
     <<<<"+", "7">>, Some(<<7>>)>>,
     <<<<"0", "0", "7">>, Some(<<7>>)>>,
     <<<<"0">>, Some(<<0>>)>>,
     <<<<"5", "0", "0", "0", "0", "0", "0", "0", "0", "0">>, Some(<<5, 0, 0, 0, 0, 0, 0, 0, 0, 0>>)>>,
     <<<<"1", "8", "4", "4", "6", "7", "4", "4", "0", "7", "3", "7", "0", "9", "5", "5", "1", "6", "1", "5">>, Some(U64_MAX)>>,
     <<<<"1", "8", "4", "4", "6", "7", "4", "4", "0", "7", "3", "7", "0", "9", "5", "5", "1", "6", "1", "6">>, None>>,
     <<<<"-", "1">>, None>>,
     <<<<"-", "0">>, None>>,
     <<<<"1", ".", "5">>, None>>,
     <<<<>>, None>>,
     <<<<" ", "5">>, None>>,
     <<<<"a", "b", "c">>, None>>}

I32Cases ==
    {<<<<"5">>, Some(5)>>,
     <<<<"-", "3">>, Some(-3)>>,
     <<<<"+", "7">>, Some(7)>>,
     <<<<"-", "0">>, Some(0)>>,
     <<<<"2", "1", "4", "7", "4", "8", "3", "6", "4", "7">>, Some(2147483647)>>,
     <<<<"2", "1", "4", "7", "4", "8", "3", "6", "4", "8">>, None>>,
     <<<<"-", "2", "1", "4", "7", "4", "8", "3", "6", "4", "8">>, Some(-2147483647 - 1)>>,
     <<<<"-", "2", "1", "4", "7", "4", "8", "3", "6", "4", "9">>, None>>,
     <<<<"1", ".", "5">>, None>>,
     <<<<>>, None>>,
     <<<<"-">>, None>>,
     <<<<"a", "b", "c">>, None>>}

F64Cases ==
    {<<<<"1", ".", "5">>, Some(1500)>>,
     <<<<"1", "1", "0", ".", "0">>, Some(110 * FScale)>>,
     <<<<"1", "0", "0", ".", "0">>, Some(100 * FScale)>>,
     <<<<"1", "0", "0">>, Some(100 * FScale)>>,
     <<<<"1", "0", "0", ".", "0", "0", "1">>, Some(100 * FScale + 1)>>,
     <<<<"0">>, Some(0)>>,
     <<<<"0", ".", "0">>, Some(0)>>,
     <<<<"1">>, Some(1 * FScale)>>,
     <<<<"1", ".", "0">>, Some(1 * FScale)>>,
     <<<<"-", "0", ".", "1">>, Some(-100)>>,
     <<<<"-", "0", ".", "0", "0", "1">>, Some(-1)>>,
     <<<<"5">>, Some(5 * FScale)>>,
     <<<<".", "5">>, Some(500)>>,
     <<<<"5", ".">>, Some(5 * FScale)>>,
     <<<<"+", "1", ".", "5">>, Some(1500)>>,
     <<<<"N", "a", "N">>, Some(NaN)>>,
     <<<<"n", "a", "n">>, Some(NaN)>>,
     <<<<"i", "n", "f">>, Some(INF)>>,
     <<<<"-", "i", "n", "f">>, Some(NEG_INF)>>,
     <<<<"i", "n", "f", "i", "n", "i", "t", "y">>, Some(INF)>>,
     <<<<"a", "b", "c">>, None>>,
     <<<<>>, None>>,
     <<<<".">>, None>>,
     <<<<"1", ".", "2", ".", "3">>, None>>,
     <<<<" ", "1">>, None>>,
     <<<<"-">>, None>>}

BoolCases ==
    {<<<<"t", "r", "u", "e">>, Some(TRUE)>>,
     <<<<"f", "a", "l", "s", "e">>, Some(FALSE)>>,
     <<<<"T", "R", "U", "E">>, None>>,
     <<<<"T", "r", "u", "e">>, None>>,
     <<<<"1">>, None>>,
     <<<<>>, None>>,
     <<<<" ", "t", "r", "u", "e">>, None>>,
     <<<<"y", "e", "s">>, None>>}

\* a variable may be unset, or set to the string of a case
RawOf(cases) ==
    {[raw |-> None, converts |-> None]}
    \cup {[raw |-> Some(c[1]), converts |-> c[2]] : c \in cases}

\* strings handed to the time-format check
TimeStrings ==
    {<<"0", "0", ":", "0", "0">>,
     <<"1", "2", ":", "3", "0">>,
     <<"2", "3", ":", "5", "9">>,
     <<"0", "9", ":", "0", "5">>,
     <<"2", "4", ":", "0", "0">>,
     <<"1", "2", ":", "6", "0">>,
     <<"1", "2", ":", "3">>,
     <<"1", "2", "3", ":", "3", "0">>,
     <<"1", ":", "0", "5">>,
     <<"1", ":", "5">>,
     <<":">>,
     <<"1", "2", ":">>,
     <<"+", "1", ":", "3", "0">>,
     <<"1", "2", ":", "3", "0", ":", "0", "0">>,
     <<"a", "b", ":", "c", "d">>,
     <<"1", "2", "3", "0">>,
     <<>>,
     <<"1", "2", ":", "+", "5">>,
     <<" ", "1", "2", ":", "3", "0">>}

\* strings handed to the address check: lengths around 32 and 44, and
\* characters that are not alphanumeric
AddressStrings ==
    {[i \in 1..n |-> IF i = n THEN "2" ELSE "1"] : n \in {0, 1, 31, 32, 33, 43, 44, 45}}
    \cup {[i \in 1..n |-> IF i = k THEN c ELSE "A"] :
             n \in {32, 44}, k \in {1, 17, 32}, c \in {"-", " ", "z", "9"}}
    \cup {[i \in 1..n |-> IF i <= k THEN "é" ELSE "A"] :
             n \in {16, 22, 31, 32, 43, 44}, k \in {1, 16}}
    \cup {S_invalid}

\* values of TARGET_WALLETS, each with the list of addresses it stands for
WalletCases ==
    {<<<<"w", "a", "l", "l", "e", "t", "1", ",", " ", "w", "a", "l", "l", "e", "t", "2", " ", ",", "w", "a", "l", "l", "e", "t", "3">>, <<<<"w", "a", "l", "l", "e", "t", "1">>, <<"w", "a", "l", "l", "e", "t", "2">>, <<"w", "a", "l", "l", "e", "t", "3">>>>>>,
     <<<<>>, <<>>>>,
     <<<<"w", "a", "l", "l", "e", "t", "1">>, <<<<"w", "a", "l", "l", "e", "t", "1">>>>>>,
     <<<<"a", ",", "b">>, <<<<"a">>, <<"b">>>>>>,
     <<<<"a", ",", ",", "b">>, <<<<"a">>, <<>>, <<"b">>>>>>,
     <<<<" ", "a", " ">>, <<<<"a">>>>>>,
     <<<<"a", " ", "b", ",", "c">>, <<<<"a", " ", "b">>, <<"c">>>>>>,
     <<<<"a", ",">>, <<<<"a">>, <<>>>>>>,
     <<<<" ">>, <<<<>>>>>>}

\* calls of the primitive functions: the function, the variable it reads
\* with its value, and the other arguments
ParserCalls ==
    {[fn |-> "parse_u64_env", key |-> "THRESHOLD_BUY", raw |-> r.raw,
      converts |-> r.converts, default |-> d] :
        r \in RawOf(U64Cases), d \in {<<4, 2>>, <<1, 0, 0, 0, 0, 0, 0, 0, 0, 0, 0>>}}
    \cup {[fn |-> "parse_i32_env", key |-> "MIN_NUMBER_OF_BUY_SELL", raw |-> r.raw,
           converts |-> r.converts, default |-> d] :
             r \in RawOf(I32Cases), d \in {-42, 50}}
    \cup {[fn |-> "parse_f64_env", key |-> "UNIT_PRICE", raw |-> r.raw,
           converts |-> r.converts, default |-> d] :
             r \in RawOf(F64Cases), d \in {42 * FScale, -10 * FScale}}
    \cup {[fn |-> "parse_bool_env", key |-> "SELL_ALL_TOKENS", raw |-> r.raw,
           converts |-> r.converts, default |-> d] :
             r \in RawOf(BoolCases), d \in BOOLEAN}
    \cup {[fn |-> "parse_f64_env_with_validation", key |-> "BUY_SELL_PERCENT",
           raw |-> r.raw, converts |-> r.converts, default |-> d,
           min |-> b[1], max |-> b[2]] :
             r \in RawOf(F64Cases),
             d \in {0, 50 * FScale, 100 * FScale, 150 * FScale, -10 * FScale},
             b \in {<<0, 100 * FScale>>, <<0, 1 * FScale>>}}
    \cup {[fn |-> "is_valid_time_format", arg |-> t] : t \in TimeStrings}
    \cup {[fn |-> "is_valid_wallet_address", arg |-> a] : a \in AddressStrings}
    \cup {[fn |-> "load_copy_trading_settings", key |-> "TARGET_WALLETS",
           raw |-> r.raw, converts |-> r.converts] : r \in RawOf(WalletCases)}

\* the environment a call runs in: its variable set or unset, nothing else set
CallEnv(call) ==
    IF "key" \in DOMAIN call THEN [BaseEnv EXCEPT ![call.key] = call.raw] ELSE BaseEnv

\* the value the called function returns
Returned(call, e) ==
    CASE call.fn = "parse_u64_env" -> parse_u64_env(e, call.key, call.default)
      [] call.fn = "parse_i32_env" -> parse_i32_env(e, call.key, call.default)
      [] call.fn = "parse_f64_env" -> parse_f64_env(e, call.key, call.default)
      [] call.fn = "parse_bool_env" -> parse_bool_env(e, call.key, call.default)
      [] call.fn = "parse_f64_env_with_validation" ->
            parse_f64_env_with_validation(e, call.key, call.default, call.min, call.max)
      [] call.fn = "is_valid_time_format" -> is_valid_time_format(call.arg)
      [] call.fn = "is_valid_wallet_address" -> is_valid_wallet_address(call.arg)
      [] call.fn = "load_copy_trading_settings" ->
            load_copy_trading_settings(e).target_wallets

\* one of the primitive functions is called and returns
ApplyParse ==
    /\ pin # NoArgs
    /\ is_none(pout)
    /\ pout' = Some(Returned(pin, env))
    /\ UNCHANGED <<env, cell, sem, mutex, pc, got, calls, loc, log, initRuns,
                   loaderRuns, validatorRuns, envChanges, vin, vout, pin,
                   doc, reloaded>>

InitParser ==
    /\ pin \in ParserCalls
    /\ env = CallEnv(pin)
    /\ pout = None
    /\ doc = None
    /\ reloaded = None
    /\ cell = None
    /\ sem = [permits |-> 1, closed |-> FALSE]
    /\ mutex = 1
    /\ pc = [c \in Callers |-> "idle"]
    /\ got = [c \in Callers |-> 0]
    /\ calls = [c \in Callers |-> 0]
    /\ loc = [c \in Callers |-> NoLocals]
    /\ log = <<>>
    /\ initRuns = 0
    /\ loaderRuns = 0
    /\ validatorRuns = 0
    /\ envChanges = 0
    /\ vin = NoInput
    /\ vout = None

\* the primitive parsers and checks as functions of their arguments and of
\* the variable they read
SpecParse == InitParser /\ [][ApplyParse]_vars

\* the validator and the primitive functions side by side
InitBounds == InitValidator \/ InitParser

NextBounds == ApplyValidate \/ ApplyParse

SpecBounds == InitBounds /\ [][NextBounds]_vars

\* ------------------------------------------------------------------ claims

InInitializer(c) == pc[c] \in {"load", "validate", "handles", "build"}
InCall(c) == pc[c] \in {"get_or_init", "acquire"} \/ InInitializer(c)

C3_EveryCallerServed ==
    /\ \A c \in Callers : InCall(c) ~> (pc[c] = "have" /\ got[c] # 0)
    /\ (Lifecycle = "Initializing") ~> (Lifecycle = "Ready")

\* one task waits on the semaphore while another runs the initializer
C3_Witness ==
    \E c, d \in Callers : c # d /\ pc[c] = "acquire" /\ pc[d] = "validate"

\* C4: after a fatal failure of the initializer no second initialization is
\* started, the cell stays unset and no task is handed an aggregate.
C4_SingleAttempt ==
    (\E c \in Callers : pc[c] = "panicked")
        => /\ initRuns = 1
           /\ ~initialized
           /\ \A c \in Callers : ~InInitializer(c)

\* C5: at most one task holds the guard of the aggregate.
C5_MutualExclusion ==
    Cardinality({c \in Callers : pc[c] = "locked"}) <= 1

\* one task holds the guard while another has the reference and wants it
C5_Witness ==
    \E c, d \in Callers : c # d /\ pc[c] = "locked" /\ pc[d] = "have"

\* C6: once Ready, no step (a further Config::new, a change of the
\* environment) runs the loaders or the validator again or changes the
\* aggregate.
C6_ReadyIsFrozen ==
    [][initialized =>
          /\ cell' = cell
          /\ loaderRuns' = loaderRuns
          /\ validatorRuns' = validatorRuns
          /\ log' = log]_vars

\* Ready, the environment changed so that the loaders would now return
\* other records, and a task is inside a further Config::new
C6_Witness ==
    /\ initialized
    /\ envChanges > 0
    /\ load_basic_trading_settings(env) # cell[1].basic_trading
    /\ \E c \in Callers : calls[c] = 2 /\ pc[c] = "get_or_init"

\* lines of the log that report an error
ErrorLines == {i \in 1..Len(log) : log[i].msg = "error"}

\* C7: whatever the validator reports, the initializer goes on: a task at
\* the validation step reaches Ready, with every reported error logged.
C7_ValidationIsAdvisory ==
    \A c \in Callers :
        (pc[c] = "validate")
            ~> (initialized /\ pc[c] = "have"
                /\ Cardinality(ErrorLines) = Len(validate_loaded(
                       [basic_trading |-> cell[1].basic_trading,
                        jito |-> cell[1].jito,
                        advanced_filters |-> cell[1].advanced_filters,
                        copy_trading |-> cell[1].copy_trading,
                        private_logic |-> cell[1].private_logic,
                        timer |-> cell[1].timer,
                        advanced |-> cell[1].advanced])))

\* Ready although the validator reported several violations
C7_Witness ==
    /\ initialized
    /\ Cardinality(ErrorLines) >= 2

\* a finite value within [lo, hi]
InRange(x, lo, hi) == x # NaN /\ x >= lo /\ x <= hi

\* a diagnostic of this kind for this field is in the log
Diagnosed(kind, field) ==
    \E i \in ErrorLines : log[i].error.kind = kind /\ log[i].error.field = field

\* C8: in every Ready state each declared rule holds of the stored values
\* or a diagnostic for it was logged.
C8_RulesHoldOrDiagnosed ==
    initialized =>
      LET cfg == cell[1]
          pct(x, name) ==
              InRange(x, 0, 100 * FScale) \/ Diagnosed("InvalidPercentage", name)
          conf(x, name) ==
              InRange(x, 0, 1 * FScale) \/ Diagnosed("InvalidPercentage", name)
      IN  /\ \/ NumLt(cfg.basic_trading.threshold_buy, cfg.basic_trading.threshold_sell)
             \/ Diagnosed("InvalidThresholds", "THRESHOLD")
          /\ pct(cfg.basic_trading.downing_percent, "DOWNING_PERCENT")
          /\ pct(cfg.copy_trading.buy_sell_percent, "BUY_SELL_PERCENT")
          /\ pct(cfg.private_logic.stage_1_percent, "PL_STAGE_1_PERCENT")
          /\ pct(cfg.private_logic.stage_2_percent, "PL_STAGE_2_PERCENT")
          /\ pct(cfg.private_logic.stage_3_percent, "PL_STAGE_3_PERCENT")
          /\ pct(cfg.private_logic.stage_4_percent, "PL_STAGE_4_PERCENT")
          /\ pct(cfg.private_logic.stage_5_percent, "PL_STAGE_5_PERCENT")
          /\ pct(cfg.private_logic.stage_6_percent, "PL_STAGE_6_PERCENT")
          /\ pct(cfg.private_logic.stage_7_percent, "PL_STAGE_7_PERCENT")
          /\ conf(cfg.advanced.min_buy_confidence, "MIN_BUY_CONFIDENCE")
          /\ conf(cfg.advanced.min_sell_confidence, "MIN_SELL_CONFIDENCE")
          /\ \/ FLt(cfg.advanced_filters.min_market_cap, cfg.advanced_filters.max_market_cap)
             \/ Diagnosed("ValidationError", "MARKET_CAP")
          /\ \/ FLt(cfg.advanced_filters.min_volume, cfg.advanced_filters.max_volume)
             \/ Diagnosed("ValidationError", "VOLUME")
          /\ \A w \in 1..Len(cfg.copy_trading.target_wallets) :
                \/ is_valid_wallet_address(cfg.copy_trading.target_wallets[w])
                \/ \E i \in ErrorLines :
                      /\ log[i].error.kind = "InvalidWalletAddress"
                      /\ log[i].error.args = <<cfg.copy_trading.target_wallets[w]>>
          /\ cfg.timer.enabled =>
                /\ \/ is_valid_time_format(cfg.timer.start_time)
                   \/ Diagnosed("InvalidTimeFormat", "BOT_START_TIME")
                /\ \/ is_valid_time_format(cfg.timer.stop_time)
                   \/ Diagnosed("InvalidTimeFormat", "BOT_STOP_TIME")

\* the checks of the validator that fail on the records of vin, each
\* invalid wallet counted by its position
FailingChecks ==
    LET b == vin.basic_trading
        f == vin.advanced_filters
        a == vin.advanced
        out(x, lo, hi) == x # NaN /\ (x < lo \/ x > hi)
    IN  {k \in {"thresholds"} : vin.ix[1] >= vin.ix[2]}
        \cup {k \in {"downing"} : out(b.downing_percent, 0, 100 * FScale)}
        \cup {k \in {"market_cap"} :
                f.min_market_cap # NaN /\ f.min_market_cap > f.max_market_cap}
        \cup {k \in {"volume"} : f.min_volume # NaN /\ f.min_volume > f.max_volume}
        \cup {k \in {"start"} : vin.timer.enabled /\ vin.timer.start_time = S_2400}
        \cup {k \in {"stop"} : vin.timer.enabled /\ vin.timer.stop_time = S_1260}
        \cup {k \in {"buy_confidence"} : out(a.min_buy_confidence, 0, 1 * FScale)}
        \cup {k \in {"sell_confidence"} : out(a.min_sell_confidence, 0, 1 * FScale)}

InvalidWallets ==
    {i \in 1..Len(vin.copy_trading.target_wallets) :
        vin.copy_trading.target_wallets[i] = S_invalid}

\* C9: the validator returns one diagnostic for every failing check, every
\* invalid wallet counted on its own; no failure hides another.
C9_NoShortCircuit ==
    is_some(vout) =>
        Len(vout[1]) = Cardinality(FailingChecks) + Cardinality(InvalidWallets)

\* several checks fail at once, two invalid wallets among them
C9_Witness ==
    /\ is_some(vout)
    /\ Cardinality(InvalidWallets) = 2
    /\ Cardinality(FailingChecks) >= 3
    /\ Len(vout[1]) >= 5

ThresholdErrors == {i \in 1..Len(vout[1]) : vout[1][i].kind = "InvalidThresholds"}

\* C10: a threshold-ordering violation is reported exactly when the buy
\* threshold is greater than or equal to the sell threshold.
C10_ThresholdOrdering ==
    is_some(vout) =>
        IF vin.ix[1] >= vin.ix[2]
        THEN Cardinality(ThresholdErrors) = 1
        ELSE Cardinality(ThresholdErrors) = 0

\* equal thresholds, reported
C10_Witness ==
    /\ is_some(vout)
    /\ vin.ix[1] = vin.ix[2]
    /\ vin.basic_trading.threshold_buy = vin.basic_trading.threshold_sell
    /\ Cardinality(ThresholdErrors) = 1

\* C11: the validator returns no violation on the Default value of every
\* category record.
C11_DefaultsPass ==
    (is_some(vout) /\ vin = DefaultInput) => vout[1] = <<>>

\* the validator has run on the defaults: thresholds 3e9 < 1e10, timer off,
\* no target wallet
C11_Witness ==
    /\ is_some(vout)
    /\ vin.basic_trading = BasicTradingConfig_default
    /\ vin.advanced_filters = AdvancedFilterSettings_default
    /\ vin.copy_trading = CopyTradingConfig_default
    /\ vin.private_logic = PrivateLogicConfig_default
    /\ vin.timer = TimerConfig_default
    /\ vin.advanced = AdvancedConfig_default

\* the names of the staged-exit percentages in diagnostics
StageName ==
    <<"PL_STAGE_1_PERCENT", "PL_STAGE_2_PERCENT", "PL_STAGE_3_PERCENT",
      "PL_STAGE_4_PERCENT", "PL_STAGE_5_PERCENT", "PL_STAGE_6_PERCENT",
      "PL_STAGE_7_PERCENT">>

\* the percentage and confidence fields of the records in vin, with the
\* name a diagnostic carries and the upper bound of the declared interval
RangeFields ==
    {[value |-> vin.basic_trading.downing_percent,
      name |-> "DOWNING_PERCENT", hi |-> 100 * FScale],
     [value |-> vin.copy_trading.buy_sell_percent,
      name |-> "BUY_SELL_PERCENT", hi |-> 100 * FScale],
     [value |-> vin.advanced.min_buy_confidence,
      name |-> "MIN_BUY_CONFIDENCE", hi |-> 1 * FScale],
     [value |-> vin.advanced.min_sell_confidence,
      name |-> "MIN_SELL_CONFIDENCE", hi |-> 1 * FScale]}
    \cup {[value |-> vin.private_logic[StageField[k]],
           name |-> StageName[k], hi |-> 100 * FScale] : k \in 1..7}

\* the violations returned for a field
RangeErrors(name) ==
    {i \in 1..Len(vout[1]) :
        vout[1][i].kind = "InvalidPercentage" /\ vout[1][i].field = name}

\* C12: every percentage field outside [0,100] and every confidence outside
\* [0,1] in the records handed to the validator produces exactly one
\* violation for that field.
C12_OutOfRangeReported ==
    is_some(vout) =>
        \A f \in RangeFields :
            (f.value # NaN /\ (f.value < 0 \/ f.value > f.hi))
                => Cardinality(RangeErrors(f.name)) = 1

\* the value a parser call works on: the converted value of the variable,
\* or the default when the variable is unset or does not convert
Resulting(call) ==
    IF is_some(call.raw) /\ is_some(call.converts) THEN call.converts[1] ELSE call.default

BoundedCall == pin # NoArgs /\ pin.fn = "parse_f64_env_with_validation"

\* C13: range bounds are inclusive: a percentage of exactly 0 or 100 and a
\* confidence of exactly 0 or 1 produce no violation in the validator, and
\* the bounded parser succeeds on a value equal to min or equal to max.
C13_InclusiveBounds ==
    /\ (vin # NoInput /\ is_some(vout)) =>
           \A f \in RangeFields :
               (f.value = 0 \/ f.value = f.hi) => RangeErrors(f.name) = {}
    /\ (BoundedCall /\ is_some(pout)) =>
           ((Resulting(pin) = pin.min \/ Resulting(pin) = pin.max)
               => pout[1] = Some(Resulting(pin)))

\* the bounded parser has returned 100.0 read from the variable with
\* max = 100.0
C13_Witness ==
    /\ BoundedCall
    /\ is_some(pout)
    /\ is_some(pin.raw)
    /\ pin.max = 100 * FScale
    /\ Resulting(pin) = pin.max
    /\ pout[1] = Some(100 * FScale)

\* the violations returned for a minimum/maximum pair
PairErrors(name) ==
    {i \in 1..Len(vout[1]) :
        vout[1][i].kind = "ValidationError" /\ vout[1][i].field = name}

\* C14: for the market-cap pair and the volume pair the validator reports a
\* violation whenever the minimum is not strictly less than the maximum
\* (equality included), and none when it is.
C14_PairsStrictlyOrdered ==
    (vin # NoInput /\ is_some(vout)) =>
        /\ Cardinality(PairErrors("MARKET_CAP")) =
              (IF vin.advanced_filters.min_market_cap < vin.advanced_filters.max_market_cap
               THEN 0 ELSE 1)
        /\ Cardinality(PairErrors("VOLUME")) =
              (IF vin.advanced_filters.min_volume < vin.advanced_filters.max_volume
               THEN 0 ELSE 1)

\* a 24-hour "HH:MM" value: two digits of hours up to 23, a colon, two
\* digits of minutes up to 59
HHMM(s) ==
    /\ Len(s) = 5
    /\ s[3] = ":"
    /\ \A i \in {1, 2, 4, 5} : s[i] \in Digits
    /\ \/ s[1] \in {"0", "1"}
       \/ s[1] = "2" /\ s[2] \in {"0", "1", "2", "3"}
    /\ s[4] \in {"0", "1", "2", "3", "4", "5"}

\* the time-format violations returned for a field
TimeErrors(name) ==
    {i \in 1..Len(vout[1]) :
        vout[1][i].kind = "InvalidTimeFormat" /\ vout[1][i].field = name}

\* C15: with the timer enabled the validator reports one violation for a
\* malformed start time and, independently, one for a malformed stop time;
\* with the timer disabled it reports no time-format violation.
C15_TimerConditional ==
    (vin # NoInput /\ is_some(vout)) =>
        /\ Cardinality(TimeErrors("BOT_START_TIME")) =
              (IF vin.timer.enabled /\ ~HHMM(vin.timer.start_time) THEN 1 ELSE 0)
        /\ Cardinality(TimeErrors("BOT_STOP_TIME")) =
              (IF vin.timer.enabled /\ ~HHMM(vin.timer.stop_time) THEN 1 ELSE 0)

\* the function named has been called and has returned
Called(fn) == pin # NoArgs /\ pin.fn = fn /\ is_some(pout)

\* C16: the time-format check accepts a string if and only if it is a
\* 24-hour "HH:MM" value: exactly two digits of hours up to 23, one colon,
\* exactly two digits of minutes up to 59.
C16_TimeFormatExact ==
    Called("is_valid_time_format") => (pout[1] = HHMM(pin.arg))

\* C17: the address check accepts a string if and only if its length is
\* between 32 and 44 inclusive and every character is alphanumeric.
C17_AddressCheckExact ==
    Called("is_valid_wallet_address") =>
        (pout[1] = (/\ Len(pin.arg) >= 32
                    /\ Len(pin.arg) <= 44
                    /\ \A i \in 1..Len(pin.arg) : is_alphanumeric(pin.arg[i])))

\* a string without its whitespace
NoSpace(s) == SelectSeq(s, LAMBDA c : ~is_whitespace(c))

\* the elements of a list without their whitespace, separated by commas
Joined(list) ==
    LET flat[k \in 0..Len(list)] ==
            IF k = 0 THEN <<>>
            ELSE flat[k - 1] \o (IF k > 1 THEN <<",">> ELSE <<>>) \o NoSpace(list[k])
    IN  flat[Len(list)]

\* C18: the copy-trading loader splits TARGET_WALLETS on commas and trims
\* the whitespace around each element, preserving order and element count;
\* an unset or empty value gives the empty list.
C18_TargetWalletsParsed ==
    Called("load_copy_trading_settings") =>
        /\ pout[1] = pin.converts
        /\ IF is_none(pin.raw) \/ pin.raw = Some(<<>>)
           THEN pout[1] = <<>>
           ELSE /\ Len(pout[1]) = CountChar(pin.raw[1], ",") + 1
                /\ Joined(pout[1]) = NoSpace(pin.raw[1])
                /\ \A i \in 1..Len(pout[1]) :
                      /\ \A j \in 1..Len(pout[1][i]) : pout[1][i][j] # ","
                      /\ pout[1][i] # <<>> =>
                            /\ ~is_whitespace(pout[1][i][1])
                            /\ ~is_whitespace(pout[1][i][Len(pout[1][i])])

\* "wallet1, wallet2 ,wallet3" has been read as three trimmed addresses
C18_Witness ==
    /\ Called("load_copy_trading_settings")
    /\ is_some(pin.raw)
    /\ Len(pin.raw[1]) = 25
    /\ Len(pout[1]) = 3
    /\ pout[1][2] = <<"w", "a", "l", "l", "e", "t", "2">>

UnboundedParsers ==
    {"parse_u64_env", "parse_i32_env", "parse_f64_env", "parse_bool_env"}

\* C19: each unbounded parser returns the converted value when the variable
\* is set and converts to the target type, and exactly the default when it
\* is unset or does not convert; a signed, fractional or too large numeral
\* is never wrapped or truncated by the unsigned parser.
C19_ParseOrDefault ==
    /\ (pin # NoArgs /\ pin.fn \in UnboundedParsers /\ is_some(pout)) =>
           pout[1] = Resulting(pin)
    /\ (Called("parse_u64_env") /\ is_some(pin.raw)) =>
           ((\E i \in 1..Len(pin.raw[1]) : pin.raw[1][i] \in {"-", "."})
               => pout[1] = pin.default)

\* the unsigned parser has returned its default for "-1"
C19_Witness ==
    /\ Called("parse_u64_env")
    /\ pin.raw = Some(<<"-", "1">>)
    /\ pin.default = <<4, 2>>
    /\ pout[1] = <<4, 2>>

\* a value lies in the closed interval [min, max]; NaN lies in none
Within(v, min, max) == v # NaN /\ min <= v /\ v <= max

\* C20: the bounded parser returns a range violation if and only if the
\* resulting value, parsed or default, lies outside [min, max], and
\* otherwise returns that value unchanged.
C20_BoundedParser ==
    Called("parse_f64_env_with_validation") =>
        (pout[1] = (IF Within(Resulting(pin), pin.min, pin.max)
                    THEN Some(Resulting(pin)) ELSE None))

\* the fields the loaders read through the bounded parser: category, field,
\* variable and interval
BoundedFields ==
    {[cat |-> "copy_trading", field |-> "buy_sell_percent",
      name |-> "BUY_SELL_PERCENT", hi |-> 100 * FScale],
     [cat |-> "advanced", field |-> "min_buy_confidence",
      name |-> "MIN_BUY_CONFIDENCE", hi |-> 1 * FScale],
     [cat |-> "advanced", field |-> "min_sell_confidence",
      name |-> "MIN_SELL_CONFIDENCE", hi |-> 1 * FScale]}
    \cup {[cat |-> "private_logic", field |-> StageField[k],
           name |-> StageName[k], hi |-> 100 * FScale] : k \in 1..7}

\* the two time strings of the scheduling window
TimeFields ==
    {[cat |-> "timer", field |-> "start_time", name |-> "BOT_START_TIME"],
     [cat |-> "timer", field |-> "stop_time", name |-> "BOT_STOP_TIME"]}

\* the Default record of each category
DefaultOf ==
    [basic_trading    |-> BasicTradingConfig_default,
     jito             |-> JitoConfig_default,
     zero_slot        |-> ZeroSlotConfig_default,
     nozomi           |-> NozomiConfig_default,
     blox_route       |-> BloxRouteConfig_default,
     advanced_filters |-> AdvancedFilterSettings_default,
     copy_trading     |-> CopyTradingConfig_default,
     private_logic    |-> PrivateLogicConfig_default,
     inverse_buy      |-> InverseBuyConfig_default,
     timer            |-> TimerConfig_default,
     mode             |-> ModeConfig_default,
     advanced         |-> AdvancedConfig_default]

\* the variable is set to a number outside [0, hi]
SetOutOfRange(f) ==
    /\ is_some(env[f.name])
    /\ is_some(parse_f64_str(env[f.name][1]))
    /\ ~Within(parse_f64_str(env[f.name][1])[1], 0, f.hi)

\* the variable is set to a string that is not a 24-hour "HH:MM" value
SetMalformed(f) == is_some(env[f.name]) /\ ~HHMM(env[f.name][1])

\* C21: when a bounded field's variable is out of range, or a time string
\* is malformed, the loader stores the field's default and the violation is
\* recorded as a diagnostic in the startup log.
C21_FallbackIsDiagnosed ==
    initialized =>
        /\ \A f \in BoundedFields :
              SetOutOfRange(f) =>
                  /\ cell[1][f.cat][f.field] = DefaultOf[f.cat][f.field]
                  /\ Diagnosed("InvalidPercentage", f.name)
        /\ \A f \in TimeFields :
              SetMalformed(f) =>
                  /\ cell[1][f.cat][f.field] = DefaultOf[f.cat][f.field]
                  /\ Diagnosed("InvalidTimeFormat", f.name)

\* C22: a category loader none of whose variables is set returns the
\* category's Default record, field for field.
C22_UnsetGivesDefault ==
    initialized =>
        \A cat \in DOMAIN LoaderVars :
            (\A n \in LoaderVars[cat] : is_none(env[n]))
                => cell[1][cat] = DefaultOf[cat]

\* only a timer variable is set: the timer record differs from its
\* default, the eleven others are the defaults
C22_Witness ==
    /\ initialized
    /\ env["BOT_START_TIME"] = Some(<<"1", "2", ":", "3", "0">>)
    /\ cell[1].timer # TimerConfig_default
    /\ \A cat \in DOMAIN LoaderVars \ {"timer"} : cell[1][cat] = DefaultOf[cat]

\* the key material is absent, empty, not base58, or not a 64-byte key
NoUsableKey ==
    \/ is_none(env["PRIVATE_KEY"])
    \/ env["PRIVATE_KEY"][1] = <<>>
    \/ \E i \in 1..Len(env["PRIVATE_KEY"][1]) : env["PRIVATE_KEY"][1][i] \notin Base58
    \/ Len(env["PRIVATE_KEY"][1]) \notin {87, 88}

\* C23: key material never aborts construction: whatever PRIVATE_KEY is,
\* the initializer's handle step can be taken, and the Ready aggregate
\* holds a wallet, a freshly generated one when the key is absent, empty,
\* not decodable or not a valid key.
C23_KeyNeverAborts ==
    /\ \A c \in Callers : pc[c] = "handles" => ENABLED InitHandles(c)
    /\ initialized =>
          /\ "wallet" \in DOMAIN cell[1].app_state
          /\ NoUsableKey => cell[1].app_state.wallet.generated

\* Ready with a generated wallet although PRIVATE_KEY was set to a string
\* that is not base58
C23_Witness ==
    /\ initialized
    /\ env["PRIVATE_KEY"] = Some(<<"0", "O", "I", "l">>)
    /\ cell[1].app_state.wallet.generated

\* ---------------------------------------------------------------------
\* Export of the tunable categories and re-load of the exported document
\* ---------------------------------------------------------------------

\* the declared type of every field of the twelve category records
FieldTypes ==
    [ basic_trading |->
        [threshold_sell  |-> "u64",
         threshold_buy   |-> "u64",
         max_wait_time   |-> "u64",
         private_key     |-> "string",
         rpc_http        |-> "string",
         rpc_wss         |-> "string",
         time_exceed     |-> "u64",
         token_amount    |-> "u64",
         unit_price      |-> "f64",
         unit_limit      |-> "u64",
         downing_percent |-> "f64",
         sell_all_tokens |-> "bool"],
     jito |->
        [block_engine_url |-> "string",
         priority_fee     |-> "u64",
         tip_value        |-> "u64",
         use_jito         |-> "bool"],
     zero_slot |->
        [url       |-> "string",
         tip_value |-> "u64"],
     nozomi |->
        [url       |-> "string",
         tip_value |-> "u64"],
     blox_route |->
        [network     |-> "string",
         region      |-> "string",
         auth_header |-> "string",
         tip_value   |-> "u64"],
     advanced_filters |->
        [min_market_cap           |-> "f64",
         max_market_cap           |-> "f64",
         market_cap_enabled       |-> "bool",
         min_volume               |-> "f64",
         max_volume               |-> "f64",
         volume_enabled           |-> "bool",
         min_number_of_buy_sell   |-> "i32",
         max_number_of_buy_sell   |-> "i32",
         buy_sell_count_enabled   |-> "bool",
         sol_invested             |-> "f64",
         sol_invested_enabled     |-> "bool",
         min_launcher_sol_balance |-> "f64",
         max_launcher_sol_balance |-> "f64",
         launcher_sol_enabled     |-> "bool",
         dev_buy_enabled          |-> "bool"],
     copy_trading |->
        [enabled                |-> "bool",
         buy_sell_percent       |-> "f64",
         target_wallets         |-> "vec",
         multi_target_mode      |-> "bool",
         mc_threshold_to_buy    |-> "f64",
         mc_threshold_to_follow |-> "f64"],
     private_logic |->
        [enabled         |-> "bool",
         stage_1_percent |-> "f64",
         stage_1_delay   |-> "u64",
         stage_2_percent |-> "f64",
         stage_2_delay   |-> "u64",
         stage_3_percent |-> "f64",
         stage_3_delay   |-> "u64",
         stage_4_percent |-> "f64",
         stage_4_delay   |-> "u64",
         stage_5_percent |-> "f64",
         stage_5_delay   |-> "u64",
         stage_6_percent |-> "f64",
         stage_6_delay   |-> "u64",
         stage_7_percent |-> "f64",
         stage_7_delay   |-> "u64"],
     inverse_buy |->
        [enabled    |-> "bool",
         buy_amount |-> "f64"],
     timer |->
        [enabled           |-> "bool",
         start_time        |-> "string",
         stop_time         |-> "string",
         auto_sell_on_stop |-> "bool"],
     mode |->
        [simulation_mode |-> "bool",
         live_mode       |-> "bool",
         paper_trading   |-> "bool"],
     advanced |->
        [limit_wait_time                     |-> "u64",
         limit_buy_amount_in_limit_wait_time |-> "f64",
         review_cycle_duration               |-> "u64",
         time_delta_threshold                |-> "u64",
         price_delta_threshold               |-> "f64",
         min_buy_confidence                  |-> "f64",
         min_sell_confidence                 |-> "f64",
         daily_buy_budget                    |-> "f64"]]

\* the JSON text of one value: integers in decimal, a finite float with a
\* decimal point and at least one fraction digit, a float that is not finite
\* as null (JSON has no such number), a string between quotes with quotes
\* and backslashes escaped, a list as the sequence of its elements' texts
to_json(type, v) ==
    LET Chr(d) == CHOOSE c \in Digits : DigitVal(c) = d
        digits(n) == [i \in 1..Len(n) |-> Chr(n[i])]
        abs(x) == IF x < 0 THEN 0 - x ELSE x
        sign(x) == IF x < 0 THEN <<"-">> ELSE <<>>
        frac(m) ==
            IF m % 100 = 0 THEN <<Chr(m \div 100)>>
            ELSE IF m % 10 = 0 THEN <<Chr(m \div 100), Chr((m \div 10) % 10)>>
            ELSE <<Chr(m \div 100), Chr((m \div 10) % 10), Chr(m % 10)>>
        RECURSIVE escape(_)
        escape(t) ==
            IF t = <<>> THEN <<>>
            ELSE (IF Head(t) \in {"\"", "\\"} THEN <<"\\", Head(t)>>
                  ELSE <<Head(t)>>) \o escape(Tail(t))
        quoted(t) == <<"\"">> \o escape(t) \o <<"\"">>
    IN  CASE type = "u64" -> digits(v)
          [] type = "i32" -> sign(v) \o digits(IntToNum(abs(v)))
          [] type = "f64" ->
                IF v \in {NaN, INF, NEG_INF} THEN <<"n", "u", "l", "l">>
                ELSE sign(v) \o digits(IntToNum(abs(v) \div FScale))
                             \o <<".">> \o frac(abs(v) % FScale)
          [] type = "bool" ->
                IF v THEN <<"t", "r", "u", "e">> ELSE <<"f", "a", "l", "s", "e">>
          [] type = "string" -> quoted(v)
          [] type = "vec" -> [i \in 1..Len(v) |-> quoted(v[i])]

\* the value a JSON text stands for, None when the text is not a value of
\* the field's type
from_json(type, text) ==
    LET RECURSIVE unescape(_)
        unescape(t) ==
            IF t = <<>> THEN Some(<<>>)
            ELSE IF Head(t) = "\"" THEN None
            ELSE IF Head(t) = "\\"
            THEN IF Len(t) < 2 \/ t[2] \notin {"\"", "\\"} THEN None
                 ELSE LET r == unescape(Tail(Tail(t)))
                      IN  IF is_none(r) THEN None ELSE Some(<<t[2]>> \o r[1])
            ELSE LET r == unescape(Tail(t))
                 IN  IF is_none(r) THEN None ELSE Some(<<Head(t)>> \o r[1])
        unquoted(t) ==
            IF Len(t) < 2 \/ t[1] # "\"" \/ t[Len(t)] # "\"" THEN None
            ELSE unescape(SubSeq(t, 2, Len(t) - 1))
        number(t) == t # <<>> /\ Head(t) # "+"
    IN  CASE type = "u64" ->
                IF number(text) THEN parse_unsigned(text, U64_MAX) ELSE None
          [] type = "i32" -> IF number(text) THEN parse_i32_str(text) ELSE None
          [] type = "f64" ->
                IF number(text) /\ \A i \in 1..Len(text) : text[i] \in Digits \cup {"-", "."}
                THEN parse_f64_str(text) ELSE None
          [] type = "bool" ->
                IF text = <<"t", "r", "u", "e">> THEN Some(TRUE)
                ELSE IF text = <<"f", "a", "l", "s", "e">> THEN Some(FALSE)
                ELSE None
          [] type = "string" -> unquoted(text)
          [] type = "vec" ->
                IF \E i \in 1..Len(text) : is_none(unquoted(text[i])) THEN None
                ELSE Some([i \in 1..Len(text) |-> unquoted(text[i])[1]])

\* the settings document of an aggregate: one key per tunable category,
\* one text per field, the raw key material left out
export_settings(cfg) ==
    LET Secrets == {"private_key"}
    IN  [cat \in DOMAIN FieldTypes |->
            [f \in DOMAIN FieldTypes[cat] \ Secrets |->
                to_json(FieldTypes[cat][f], cfg[cat][f])]]

\* the category records re-loaded from a settings document through the
\* loaders' field mapping: a field that is absent from the document or whose
\* text does not parse resolves to the field's default
reload_settings(d) ==
    [cat \in DOMAIN FieldTypes |->
        [f \in DOMAIN FieldTypes[cat] |->
            IF f \in DOMAIN d[cat]
            THEN unwrap_or(from_json(FieldTypes[cat][f], d[cat][f]), DefaultOf[cat][f])
            ELSE DefaultOf[cat][f]]]

\* the finished aggregate is exported once
Export ==
    /\ initialized
    /\ is_none(doc)
    /\ doc' = Some(export_settings(cell[1]))
    /\ UNCHANGED <<env, cell, sem, mutex, pc, got, calls, loc, log, initRuns,
                   loaderRuns, validatorRuns, envChanges, vin, vout, pin, pout,
                   reloaded>>

\* the exported document is re-loaded once
Reload ==
    /\ is_some(doc)
    /\ is_none(reloaded)
    /\ reloaded' = Some(reload_settings(doc[1]))
    /\ UNCHANGED <<env, cell, sem, mutex, pc, got, calls, loc, log, initRuns,
                   loaderRuns, validatorRuns, envChanges, vin, vout, pin, pout,
                   doc>>

NextExport == NextEnv \/ Export \/ Reload

\* one task constructs the aggregate from any start environment, exports it
\* and re-loads the document
SpecExport == InitEnv /\ [][NextExport]_vars

\* two values of a field are equal; a float that is not a number equals
\* nothing, itself included
SameValue(type, a, b) ==
    IF type = "f64" THEN a # NaN /\ b # NaN /\ a = b ELSE a = b

\* the exported fields of category cat that the re-load gives back unequal
Altered(cat) ==
    {f \in DOMAIN doc[1][cat] :
        ~SameValue(FieldTypes[cat][f], reloaded[1][cat][f], cell[1][cat][f])}

\* C24: exporting the tunable category records of an aggregate and
\* re-loading the categories from the document gives back, for every
\* exported field, a value equal to the original
C24_ExportRoundTrips ==
    is_some(reloaded) => \A cat \in DOMAIN FieldTypes : Altered(cat) = {}

\* the round trip of an aggregate built from an environment that sets
\* nothing: every record, the key material included, comes back equal
DefaultRoundTrips ==
    (is_some(reloaded) /\ env = BaseEnv) =>
        \A cat \in DOMAIN FieldTypes : reloaded[1][cat] = cell[1][cat]

\* an aggregate whose floats are all finite comes back equal in every
\* exported field
FiniteRoundTrips ==
    (/\ is_some(reloaded)
     /\ \A cat \in DOMAIN FieldTypes : \A f \in DOMAIN FieldTypes[cat] :
            FieldTypes[cat][f] = "f64" => cell[1][cat][f] \notin {NaN, INF, NEG_INF})
        => \A cat \in DOMAIN FieldTypes : Altered(cat) = {}

\* ---------------------------------------------------------------------
\* The settings count
\* ---------------------------------------------------------------------

\* the count with the advanced filters counted by their declared fields
count_all_settings_fields(self) ==
    LET existing_settings == 15
        basic_trading_settings == 12
        jito_settings == 4
        zero_slot_settings == 2
        nozomi_settings == 2
        blox_route_settings == 4
        advanced_filter_settings == Cardinality(DOMAIN self.advanced_filters)
        copy_trading_settings == 6
        private_logic_settings == 15
        inverse_buy_settings == 2
        timer_settings == 4
        mode_settings == 3
        advanced_settings == 8
        additional_swap_settings == 5
    IN  existing_settings + basic_trading_settings + jito_settings + zero_slot_settings
        + nozomi_settings + blox_route_settings + advanced_filter_settings
        + copy_trading_settings + private_logic_settings + inverse_buy_settings
        + timer_settings + mode_settings + advanced_settings + additional_swap_settings

\* Config::count_all_settings: the sum of fourteen fixed per-category counts
count_all_settings(self) ==
    LET existing_settings == 15
        basic_trading_settings == 12
        jito_settings == 4
        zero_slot_settings == 2
        nozomi_settings == 2
        blox_route_settings == 4
        advanced_filter_settings == 14
        copy_trading_settings == 6
        private_logic_settings == 15
        inverse_buy_settings == 2
        timer_settings == 4
        mode_settings == 3
        advanced_settings == 8
        additional_swap_settings == 5
    IN  existing_settings + basic_trading_settings + jito_settings + zero_slot_settings
        + nozomi_settings + blox_route_settings + advanced_filter_settings
        + copy_trading_settings + private_logic_settings + inverse_buy_settings
        + timer_settings + mode_settings + advanced_settings + additional_swap_settings

\* a consumer asks the finished aggregate for its settings count
CountSettings ==
    /\ initialized
    /\ is_none(pout)
    /\ pout' = Some(count_all_settings(cell[1]))
    /\ UNCHANGED <<env, cell, sem, mutex, pc, got, calls, loc, log, initRuns,
                   loaderRuns, validatorRuns, envChanges, vin, vout, pin,
                   doc, reloaded>>

\* one task constructs the aggregate from any start environment and a
\* consumer counts its settings
SpecCount == InitEnv /\ [][NextEnv \/ CountSettings]_vars

\* C25: the settings count of every aggregate is 96, whatever the values of
\* its fields, and 96 is the sum 15+12+4+2+2+4+14+6+15+2+4+3+8+5 of the
\* per-category counts
C25_CountIs96 ==
    is_some(pout) =>
        /\ pout[1] = 96
        /\ pout[1] = 15 + 12 + 4 + 2 + 2 + 4 + 14 + 6 + 15 + 2 + 4 + 3 + 8 + 5

\* the count was taken of an aggregate whose copy-trading record differs
\* from the default one
C25_Witness ==
    /\ is_some(pout)
    /\ pout[1] = 96
    /\ env["BUY_SELL_PERCENT"] = Some(<<"5", "0">>)
    /\ cell[1].copy_trading # CopyTradingConfig_default

\* C26: the validator changes nothing: the twelve category records of the
\* Ready aggregate are the records the loaders returned, whether the
\* validator found no violation or several
C26_ValidatorChangesNothing ==
    initialized =>
        \A cat \in DOMAIN LoaderVars : cell[1][cat] = Loaded[env].recs[cat]

\* Ready with two violations logged and both offending values stored
C26_Witness ==
    /\ initialized
    /\ Cardinality(ErrorLines) >= 2
    /\ cell[1].basic_trading = Loaded[env].recs.basic_trading
    /\ cell[1].basic_trading # BasicTradingConfig_default

\* ---------------------------------------------------------------------
\* Which variable feeds which field
\* ---------------------------------------------------------------------

\* the variables Config::new reads outside the category loaders, each with
\* the field of the aggregate it feeds
LegacyReads ==
    {<<"YELLOWSTONE_GRPC_HTTP", "yellowstone_grpc_http">>,
     <<"YELLOWSTONE_GRPC_TOKEN", "yellowstone_grpc_token">>,
     <<"YELLOWSTONE_PING_INTERVAL", "yellowstone_ping_interval">>,
     <<"YELLOWSTONE_RECONNECT_DELAY", "yellowstone_reconnect_delay">>,
     <<"YELLOWSTONE_MAX_RETRIES", "yellowstone_max_retries">>,
     <<"SLIPPAGE", "swap_config.slippage">>,
     <<"COUNTER", "counter_limit">>,
     <<"MAX_DEV_BUY", "max_dev_buy">>,
     <<"MIN_DEV_BUY", "min_dev_buy">>,
     <<"BUNDLE_CHECK", "bundle_check">>,
     <<"TIME_EXCEED", "time_exceed">>,
     <<"TOKEN_AMOUNT", "swap_config.amount_in">>,
     <<"USE_JITO", "swap_config.use_jito">>,
     <<"TAKE_PROFIT_PERCENT", "take_profit_percent">>,
     <<"STOP_LOSS_PERCENT", "stop_loss_percent">>,
     <<"MIN_LAST_TIME", "min_last_time">>,
     <<"TELEGRAM_BOT_TOKEN", "telegram_bot_token">>,
     <<"TELEGRAM_CHAT_ID", "telegram_chat_id">>,
     <<"RPC_HTTP", "app_state.rpc_client">>,
     <<"RPC_HTTP", "app_state.rpc_nonblocking_client">>,
     <<"PRIVATE_KEY", "app_state.wallet">>}

\* the places of the aggregate a variable feeds: fields outside the category
\* records, and category records (a loader reads a variable for one field)
FedBy(name) ==
    {r[2] : r \in {q \in LegacyReads : q[1] = name}}
    \cup {cat \in DOMAIN LoaderVars : name \in LoaderVars[cat]}

\* the variables that are read for more than one place
ReadTwice == {name \in DOMAIN env : Cardinality(FedBy(name)) > 1}

\* the two token amounts, the two time limits, the two Jito switches, the
\* three endpoints and the two keys of an aggregate agree
SameTokenAmount(cfg) ==
    cfg.swap_config.amount_in = FScale * NumToInt(cfg.basic_trading.token_amount)

SameTimeExceed(cfg) == cfg.time_exceed = cfg.basic_trading.time_exceed

SameUseJito(cfg) == cfg.swap_config.use_jito = cfg.jito.use_jito

SameEndpoint(cfg) ==
    /\ cfg.app_state.rpc_client.url = cfg.basic_trading.rpc_http
    /\ cfg.app_state.rpc_nonblocking_client.url = cfg.basic_trading.rpc_http

SameKey(cfg) == cfg.app_state.wallet.key = cfg.basic_trading.private_key

\* C27: every variable feeds one field of the aggregate: no variable is read
\* for two fields, so the fields of a Ready aggregate that come from
\* TOKEN_AMOUNT, TIME_EXCEED, USE_JITO, RPC_HTTP and PRIVATE_KEY cannot
\* disagree
C27_OneVariableOneField ==
    initialized =>
        /\ ReadTwice = {}
        /\ SameTokenAmount(cell[1])
        /\ SameTimeExceed(cell[1])
        /\ SameUseJito(cell[1])
        /\ SameEndpoint(cell[1])
        /\ SameKey(cell[1])

\* C28: in every Ready aggregate, whether RPC_HTTP is set or not, the
\* blocking RPC handle, the non-blocking RPC handle and
\* basic_trading.rpc_http name the same endpoint URL
C28_OneEndpoint ==
    initialized =>
        LET cfg == cell[1]
        IN  /\ cfg.app_state.rpc_client.url = cfg.app_state.rpc_nonblocking_client.url
            /\ cfg.app_state.rpc_client.url = cfg.basic_trading.rpc_http

\* with RPC_HTTP set to a URL the three agree
EndpointsAgreeWhenSet ==
    (initialized /\ is_some(env["RPC_HTTP"])) => SameEndpoint(cell[1])

\* the validator's time-format and confidence checks logged nothing
ChecksSilent ==
    /\ \A i \in ErrorLines : log[i].error.kind # "InvalidTimeFormat"
    /\ ~Diagnosed("InvalidPercentage", "MIN_BUY_CONFIDENCE")
    /\ ~Diagnosed("InvalidPercentage", "MIN_SELL_CONFIDENCE")

\* both timer strings pass the time-format check
TimesPass(cfg) ==
    /\ is_valid_time_format(cfg.timer.start_time)
    /\ is_valid_time_format(cfg.timer.stop_time)

\* C29: in every Ready aggregate the loader-bounded fields are in range:
\* buy_sell_percent and the seven stage percentages in [0, 100], the two
\* confidences in [0, 1], the timer's start and stop times pass the
\* time-format check; and the validator's time-format and confidence checks
\* reported nothing during the initialization
C29_BoundedFieldsInRange ==
    initialized =>
        /\ \A f \in BoundedFields : Within(cell[1][f.cat][f.field], 0, f.hi)
        /\ TimesPass(cell[1])
        /\ ChecksSilent

\* every bounded field that is a number is in range, the times pass and the
\* two checks are silent
FiniteFieldsInRange ==
    initialized =>
        /\ \A f \in BoundedFields :
              cell[1][f.cat][f.field] # NaN => Within(cell[1][f.cat][f.field], 0, f.hi)
        /\ TimesPass(cell[1])
        /\ ChecksSilent

====
